---------------------------- MODULE Spec2Model ----------------------------
(***************************************************************************)
(* XplaneNoaaWeather: the weather channel between the X-Plane plugin       *)
(* (PI_noaaWeather.py) and its weather server (noaweather/weatherServer.py)*)
(*                                                                         *)
(* Text messages are sequences of one-character strings, so that the       *)
(* server's parsing (strip, split, length tests, float()) is computed the  *)
(* way the code computes it.  Times are whole seconds; latitudes and       *)
(* longitudes are whole hundredths of a degree.                            *)
(***************************************************************************)
EXTENDS Integers, Sequences, FiniteSets, TLC

VARIABLES
    \* ---- weather server process (weatherServer.py) ----
    srvPc,              \* position of the server's main program
    shutdown_request,   \* SocketServer's __shutdown_request flag
    shutNow,            \* number of started shutNow threads that have not yet run
    gfs_lastgrib,       \* gfs.lastgrib: latest forecast cycle id, NoGrib if none
    wafs_lastgrib,      \* gfs.wafs.lastgrib: latest turbulence cycle id
    srvConf,            \* the server's Conf object (its metar source)
    diskConf,           \* the configuration file shared by plugin and server
    metarDb,            \* the source the server's station-report provider was initialised with
    gfs_die,            \* gfs.die event
    confSaved,          \* conf.save() has run after the server loop
    lastReq,            \* the datagram handled by the most recent handle()
    lastSent,           \* the datagrams that handle() sent
    \* ---- the two UDP directions ----
    toServer,           \* datagrams sent by the plugin, not yet received by the server
    inbox,              \* datagrams in the plugin socket's receive buffer
    connReset,          \* a port-unreachable condition is pending on the plugin's socket
    \* ---- Weather object (plugin) ----
    weatherData,        \* Weather.weatherData
    newData,            \* Weather.newData
    queryResponses,     \* Weather.queryResponses
    weatherClientThread,\* Weather.weatherClientThread: 0 (False) or the thread object
    thr,                \* per thread object: position in weatherClient()
    last_pos,           \* (Weather.last_lat, Weather.last_lon)
    \* ---- PythonInterface (plugin) ----
    enabled,            \* conf.enabled
    parserate,          \* conf.parserate
    metar_source,       \* conf.metar_source of the plugin
    flcounter, fltime, lastParse,
    latdr, londr,       \* aircraft position datarefs
    newAptLoaded,
    floopRegistered,    \* the flight loop callback is registered
    fpc,                \* position inside floopCallback, "idle" between frames
    wdata,              \* floopCallback's local wdata
    \* ---- observation of one frame / one step (history) ----
    frameSrc,           \* the snapshots the current frame has taken data from
    accum,              \* enabled frame time summed since the last position query
    frameError,         \* the most recent frame ended in an exception
    stopped,            \* the threads that were current when shutdown() sent !shutdown
    msg,                \* the ad-hoc response a frame popped last (history)
    \* ---- outputs ----
    ready,              \* Data.ready, the published ready value
    frameOut,           \* the simulator weather outputs the current frame has written (history)
    override,           \* the outputs whose Data.override_* dataref is set
    \* ---- Weather object: the wind layers ----
    alt,                \* Weather.alt: the aircraft altitude
    windAlts,           \* Weather.windAlts: the upper layer index of the last setWinds
    snapWinds,          \* the wind layer objects of weatherData['gfs']['winds']
    snapMetar,          \* weatherData['metar'] as the wind and cloud code reads it
    conf,               \* conf.metar_agl_limit and conf.metar_distance_limit
    refs,               \* the reference table of c.transition: key -> last value
    rwind,              \* the resolved layer that setWindLayer wrote to the wind slots
    pubWinds,           \* the wind layers as the receive thread published them (history)
    published,          \* the number of snapshots published to the wind code (history)
    lastCall,           \* the most recent setWinds call: its list, bracket, clear (history)
    repeat,             \* the snapshot received last equals the one it replaced (history)
    msl,                \* msltemp.value and msldewp.value: sea-level temperature and dewpoint
    \* ---- Weather object: the cloud layers ----
    snapClouds,         \* weatherData['gfs']['clouds']
    clouds,             \* Weather.clouds: the three cloud slots of the simulator
    cloud_data,         \* Data.cloud_base, cloud_top, cloud_cover: the published layers
    cloudsCalled,       \* setClouds has been called (history)
    assembled,          \* the layer list the last setClouds call assembled (history)
    \* ---- Weather object: the turbulence ----
    snapWafs,           \* weatherData['wafs']: the turbulence bands [altitude, severity]
    turbSlots,          \* Weather.winds[i]['turbulence'], the three turbulence slots
    lastTurb            \* the most recent setTurbulence call: its input and severity (history)

srvVars == <<srvPc, shutdown_request, shutNow, gfs_lastgrib, wafs_lastgrib, srvConf,
             metarDb, gfs_die, confSaved, lastReq, lastSent>>
netVars == <<toServer, inbox, connReset>>
weatherVars == <<weatherData, newData, queryResponses, weatherClientThread, thr,
                 last_pos>>
pluginVars == <<enabled, parserate, metar_source, flcounter, fltime, lastParse, latdr,
                londr, newAptLoaded, floopRegistered, fpc, wdata>>
histVars == <<frameSrc, accum, frameError, stopped, msg>>
outVars == <<ready, frameOut, override>>
windVars == <<alt, windAlts, snapWinds, snapMetar, conf, refs, rwind, pubWinds, published,
              lastCall, repeat, msl>>
cloudVars == <<snapClouds, clouds, cloud_data, cloudsCalled, assembled>>
turbVars == <<snapWafs, turbSlots, lastTurb>>
engineVars == <<windVars, cloudVars, turbVars>>
chanVars == <<srvVars, diskConf, netVars, weatherVars, pluginVars, histVars, outVars>>
vars == <<chanVars, engineVars>>

-----------------------------------------------------------------------------
(* Bounds of the model *)

MaxInbox == 1       \* datagrams the plugin socket's buffer holds; more are dropped
MaxToServer == 1    \* datagrams in flight to the server when a sender waits
MaxShutNow == 1     \* shutNow threads pending at a time
MaxThreads == 2     \* thread objects the plugin creates
MaxResponses == 2   \* ad-hoc responses queued
MaxTime == 135      \* seconds of flight-loop time explored by the rate-limit specification
ConcMaxTime == 5    \* seconds of flight-loop time in the concurrency specification
MaxPublished == 1   \* snapshots published to the wind and cloud code
MaxReceived == 2    \* snapshots the plugin receives in the frame specification

-----------------------------------------------------------------------------
(* Text *)

Digits == <<"0", "1", "2", "3", "4", "5", "6", "7", "8", "9">>

IsDigit(ch) == \E i \in 1..10 : Digits[i] = ch

DigitVal(ch) == (CHOOSE i \in 1..10 : Digits[i] = ch) - 1

\* str.strip("\n\c\t "): the characters removed from both ends
StripChars == {"\n", "\\", "c", "\t", " "}

RECURSIVE LStrip(_)
LStrip(s) == IF s # <<>> /\ Head(s) \in StripChars THEN LStrip(Tail(s)) ELSE s

RECURSIVE RStrip(_)
RStrip(s) ==
    IF s # <<>> /\ s[Len(s)] \in StripChars THEN RStrip(SubSeq(s, 1, Len(s) - 1)) ELSE s

Strip(s) == RStrip(LStrip(s))

\* index of the first ch in s, 0 if none
IndexOf(s, ch) ==
    IF \E i \in 1..Len(s) : s[i] = ch
    THEN CHOOSE i \in 1..Len(s) : s[i] = ch /\ \A j \in 1..(i - 1) : s[j] # ch
    ELSE 0

\* str.split(sep)
RECURSIVE Split(_, _)
Split(s, sep) ==
    LET i == IndexOf(s, sep)
    IN  IF i = 0 THEN <<s>>
        ELSE <<SubSeq(s, 1, i - 1)>> \o Split(SubSeq(s, i + 1, Len(s)), sep)

RECURSIVE DigitsVal(_)
DigitsVal(s) ==
    IF s = <<>> THEN 0 ELSE 10 * DigitsVal(SubSeq(s, 1, Len(s) - 1)) + DigitVal(s[Len(s)])

\* float(tok), in hundredths: [ok |-> FALSE] stands for ValueError.  The inputs of
\* the model carry at most two decimals.
ParseFloat(tok) ==
    LET t    == Strip(tok)
        neg  == t # <<>> /\ t[1] = "-"
        body == IF neg THEN Tail(t) ELSE t
        dot  == IndexOf(body, ".")
        ip   == IF dot = 0 THEN body ELSE SubSeq(body, 1, dot - 1)
        fp   == IF dot = 0 THEN <<>> ELSE SubSeq(body, dot + 1, Len(body))
        fp2  == SubSeq(fp \o <<"0", "0">>, 1, 2)
        good == /\ Len(ip) + Len(fp) > 0
                /\ \A i \in 1..Len(ip) : IsDigit(ip[i])
                /\ \A i \in 1..Len(fp) : IsDigit(fp[i])
        mag  == 100 * DigitsVal(ip) + DigitsVal(fp2)
    IN  IF good THEN [ok |-> TRUE, val |-> IF neg THEN -mag ELSE mag]
        ELSE [ok |-> FALSE, val |-> 0]


-----------------------------------------------------------------------------
(* Messages and payloads *)

Ping == <<"!", "p", "i", "n", "g">>
Reload == <<"!", "r", "e", "l", "o", "a", "d">>
ResetMetar == <<"!", "r", "e", "s", "e", "t", "M", "e", "t", "a", "r">>
Shutdown == <<"!", "s", "h", "u", "t", "d", "o", "w", "n">>

MetarSources == {"NOAA", "IVAO"}

NoGrib == ""                    \* a lastgrib that is not set (falsy)
GfsCycles == <<"X", "Y">>       \* forecast cycle ids, oldest first
WafsCycles == <<"W">>           \* turbulence cycle ids, oldest first
NoStation == <<>>               \* getClosestStation found nothing
Stations == {<<"E", "G", "L", "L">>}

NoInfo == [lat |-> 0, lon |-> 0, wafs_cycle |-> "", gfs_cycle |-> ""]

\* A decoded payload.  type is the Python type of the object; keys are the top-level
\* keys of a dict; gfs, wafs and metar stand for the values under those keys
\* ("" or <<>> for an empty dict); text is the value of a str.
DictPayload(keys, info, gfs, wafs, metar) ==
    [type |-> "dict", keys |-> keys, info |-> info, gfs |-> gfs, wafs |-> wafs,
     metar |-> metar, text |-> <<>>]

StrPayload(text) ==
    [type |-> "str", keys |-> {}, info |-> NoInfo, gfs |-> "", wafs |-> "",
     metar |-> <<>>, text |-> text]

\* the value False
PyFalse ==
    [type |-> "bool", keys |-> {}, info |-> NoInfo, gfs |-> "", wafs |-> "",
     metar |-> <<>>, text |-> <<>>]

\* truth value of an object: False and empty containers are falsy
Truthy(p) == (p.type = "dict" /\ p.keys # {}) \/ (p.type = "str" /\ p.text # <<>>)

-----------------------------------------------------------------------------
(* weatherServer.py: clientHandler *)

\* collaborators outside src/: the grib parsers and the station-report provider
parseGribData(cycle, lat, lon) == cycle

parseMetar(apt) == apt

getMetar(icao) ==
    DictPayload({"metar"}, NoInfo, "", "", icao)

\* getWeatherData with the two cycle ids of info taken from the wrong parser
getWeatherData_CyclesSwapped(data, apt) ==
    LET lat == ParseFloat(data[1]).val
        lon == ParseFloat(data[2]).val
    IN  DictPayload(
            {"gfs", "wafs", "metar", "info"},
            [lat |-> lat, lon |-> lon,
             wafs_cycle |-> IF gfs_lastgrib # NoGrib THEN gfs_lastgrib ELSE "na",
             gfs_cycle |-> IF wafs_lastgrib # NoGrib THEN wafs_lastgrib ELSE "na"],
            IF gfs_lastgrib # NoGrib THEN parseGribData(gfs_lastgrib, lat, lon) ELSE "",
            IF wafs_lastgrib # NoGrib THEN parseGribData(wafs_lastgrib, lat, lon) ELSE "",
            IF apt # NoStation THEN parseMetar(apt) ELSE <<>>)

getWeatherData(data, apt) ==
    LET lat == ParseFloat(data[1]).val
        lon == ParseFloat(data[2]).val
    IN  DictPayload(
            {"gfs", "wafs", "metar", "info"},
            [lat |-> lat, lon |-> lon,
             wafs_cycle |-> IF wafs_lastgrib # NoGrib THEN wafs_lastgrib ELSE "na",
             gfs_cycle |-> IF gfs_lastgrib # NoGrib THEN gfs_lastgrib ELSE "na"],
            IF gfs_lastgrib # NoGrib THEN parseGribData(gfs_lastgrib, lat, lon) ELSE "",
            IF wafs_lastgrib # NoGrib THEN parseGribData(wafs_lastgrib, lat, lon) ELSE "",
            IF apt # NoStation THEN parseMetar(apt) ELSE <<>>)

\* float() of the first two fields raises ValueError
WeatherDataRaises(sdata) == ~ParseFloat(sdata[1]).ok \/ ~ParseFloat(sdata[2]).ok

\* HandleBranch with the station query test len(data) >= 5
HandleBranch_LongIcao(data) ==
    IF Len(data) > 1
    THEN IF data[1] = "?"
         THEN LET sdata == Split(Tail(data), "|")
              IN  IF Len(sdata) > 1
                  THEN IF WeatherDataRaises(sdata) THEN "raise" ELSE "weather"
                  ELSE IF Len(data) >= 5 THEN "icao" ELSE "none"
         ELSE IF data = Shutdown THEN "shutdown"
         ELSE IF data = Reload THEN "reload"
         ELSE "return"
    ELSE "none"

\* the branch handle() takes for the stripped text
HandleBranch(data) ==
    IF Len(data) > 1
    THEN IF data[1] = "?"
         THEN LET sdata == Split(Tail(data), "|")
              IN  IF Len(sdata) > 1
                  THEN IF WeatherDataRaises(sdata) THEN "raise" ELSE "weather"
                  ELSE IF Len(data) = 5 THEN "icao" ELSE "none"
         ELSE IF data = Shutdown THEN "shutdown"
         ELSE IF data = Reload THEN "reload"
         ELSE "return"
    ELSE "none"

HandleResponse(data, apt) ==
    LET b == HandleBranch(data)
    IN  IF b = "weather" THEN getWeatherData(Split(Tail(data), "|"), apt)
        ELSE IF b = "icao" THEN getMetar(Tail(data))
        ELSE PyFalse

\* the datagrams handle() sends: the early return and an exception send nothing
HandleSends(data, apt) ==
    IF HandleBranch(data) \in {"return", "raise"} THEN <<>>
    ELSE IF Truthy(HandleResponse(data, apt)) THEN <<HandleResponse(data, apt)>>
    ELSE <<>>

\* conf.load(): the configuration object takes the values of the file
ConfLoad == diskConf

\* the socket buffer of the plugin drops what it cannot hold
Deliver(box, sent) ==
    IF Len(box) + Len(sent) <= MaxInbox THEN box \o sent ELSE box

\* clientHandler.handle for the datagram raw
handle(raw, apt) ==
    LET data == Strip(raw)
        b    == HandleBranch(data)
    IN  /\ b = "shutdown" => shutNow < MaxShutNow
        /\ shutNow' = IF b = "shutdown" THEN shutNow + 1 ELSE shutNow
        /\ srvConf' = IF b = "reload" THEN ConfLoad ELSE srvConf
        /\ UNCHANGED <<gfs_lastgrib, wafs_lastgrib, metarDb, gfs_die, confSaved,
                       shutdown_request, diskConf>>

\* ShutNowRun that returns without setting the flag of the request loop
ShutNowRun_NoFlag ==
    /\ shutNow > 0
    /\ shutNow' = shutNow - 1
    /\ UNCHANGED <<srvPc, shutdown_request, gfs_lastgrib, wafs_lastgrib, srvConf, metarDb,
                   gfs_die, confSaved, lastReq, lastSent, diskConf>>

\* the thread started by clientHandler.shutdown runs srv.shutdown()
ShutNowRun ==
    /\ shutNow > 0
    /\ shutNow' = shutNow - 1
    /\ shutdown_request' = TRUE
    /\ UNCHANGED <<srvPc, gfs_lastgrib, wafs_lastgrib, srvConf, metarDb, gfs_die,
                   confSaved, lastReq, lastSent, diskConf>>

(* weatherServer.py: the main program *)

\* serve_forever: while not shutdown_request; on leaving, the flag is cleared
LoopTest ==
    /\ srvPc = "test"
    /\ srvPc' = IF shutdown_request THEN "stopped" ELSE "select"
    /\ shutdown_request' = FALSE
    /\ UNCHANGED <<shutNow, gfs_lastgrib, wafs_lastgrib, srvConf, metarDb, gfs_die,
                   confSaved, lastReq, lastSent, diskConf>>

\* serve_forever: select() times out with no datagram
SelectTimeout ==
    /\ srvPc = "select"
    /\ srvPc' = "test"
    /\ UNCHANGED <<shutdown_request, shutNow, gfs_lastgrib, wafs_lastgrib, srvConf,
                   metarDb, gfs_die, confSaved, lastReq, lastSent, diskConf>>

\* except KeyboardInterrupt: pass
KeyboardInterrupt ==
    /\ srvPc \in {"test", "select"}
    /\ srvPc' = "stopped"
    /\ shutdown_request' = FALSE
    /\ UNCHANGED <<shutNow, gfs_lastgrib, wafs_lastgrib, srvConf, metarDb, gfs_die,
                   confSaved, lastReq, lastSent, diskConf>>

\* gfs.die.set()
DieSet ==
    /\ srvPc = "stopped"
    /\ gfs_die' = TRUE
    /\ srvPc' = "saving"
    /\ UNCHANGED <<shutdown_request, shutNow, gfs_lastgrib, wafs_lastgrib, srvConf,
                   metarDb, confSaved, lastReq, lastSent, diskConf>>

\* conf.save()
ConfSave ==
    /\ srvPc = "saving"
    /\ confSaved' = TRUE
    /\ srvPc' = "done"
    /\ UNCHANGED <<shutdown_request, shutNow, gfs_lastgrib, wafs_lastgrib, srvConf,
                   metarDb, gfs_die, lastReq, lastSent, diskConf>>

\* the successor of a cycle id in the list of cycles; the first one after NoGrib
NextCycle(cycles, cur) ==
    IF cur = NoGrib THEN cycles[1]
    ELSE LET i == CHOOSE k \in 1..Len(cycles) : cycles[k] = cur
         IN  IF i < Len(cycles) THEN cycles[i + 1] ELSE cur

\* the refresh worker (gfs.start()) publishes a newer forecast cycle
GfsRefresh ==
    /\ ~gfs_die
    /\ srvPc \in {"test", "select", "stopped"}
    /\ gfs_lastgrib' = NextCycle(GfsCycles, gfs_lastgrib)
    /\ gfs_lastgrib' # gfs_lastgrib
    /\ UNCHANGED <<srvPc, shutdown_request, shutNow, wafs_lastgrib, srvConf, metarDb,
                   gfs_die, confSaved, lastReq, lastSent, diskConf>>

\* the refresh worker publishes a newer turbulence cycle
WafsRefresh ==
    /\ ~gfs_die
    /\ srvPc \in {"test", "select", "stopped"}
    /\ wafs_lastgrib' = NextCycle(WafsCycles, wafs_lastgrib)
    /\ wafs_lastgrib' # wafs_lastgrib
    /\ UNCHANGED <<srvPc, shutdown_request, shutNow, gfs_lastgrib, srvConf, metarDb,
                   gfs_die, confSaved, lastReq, lastSent, diskConf>>


-----------------------------------------------------------------------------
(* PI_noaaWeather.py: class Weather *)

Threads == 1..MaxThreads

\* the thread objects whose weatherClient() is still running
Alive == {t \in Threads : thr[t] \in {"ping", "recv", "flag"}}

\* sock.sendto by weatherClientSend: nothing is sent without a thread object; a
\* datagram for a port nobody listens on is lost and may leave a reset condition
\* on the socket (platform dependent)
weatherClientSend(msgs) ==
    IF weatherClientThread = 0 \/ msgs = <<>>
    THEN UNCHANGED <<toServer, connReset>>
    ELSE IF srvPc = "done"
         THEN /\ toServer' = toServer
              /\ connReset' \in {connReset, TRUE}
         ELSE /\ Len(toServer) < MaxToServer
              /\ toServer' = toServer \o msgs
              /\ UNCHANGED connReset

\* what weatherClientSend(msgs) puts on the wire
Sent(msgs) == IF weatherClientThread = 0 THEN <<>> ELSE msgs

startWeatherClient ==
    IF weatherClientThread # 0
    THEN UNCHANGED <<weatherClientThread, thr>>
    ELSE \E t \in Threads :
            /\ thr[t] = "unborn"
            /\ \A u \in 1..(t - 1) : thr[u] # "unborn"
            /\ weatherClientThread' = t
            /\ thr' = [thr EXCEPT ![t] = "ping"]

\* weatherClient, line 141: self.weatherClientSend('!ping')
ThreadPing(t) ==
    /\ thr[t] = "ping"
    /\ weatherClientSend(<<Ping>>)
    /\ thr' = [thr EXCEPT ![t] = "recv"]
    /\ UNCHANGED <<inbox, weatherData, newData, queryResponses, weatherClientThread,
                   last_pos, pluginVars, histVars, outVars, engineVars, srvVars,
                   diskConf>>

\* 'info' in wdata: key test on a dict, substring test on a str
HasInfo(p) ==
    IF p.type = "dict" THEN "info" \in p.keys
    ELSE \E i \in 1..(Len(p.text) - 3) : SubSeq(p.text, i, i + 3) = <<"i", "n", "f", "o">>

Bye == StrPayload(<<"!", "b", "y", "e">>)

\* a datagram whose bytes pickle.loads cannot decode
Garbage ==
    [type |-> "garbage", keys |-> {}, info |-> NoInfo, gfs |-> "", wafs |-> "",
     metar |-> <<>>, text |-> <<>>]

\* a datagram that decodes to an object which is no container (an int)
NotMapping ==
    [type |-> "int", keys |-> {}, info |-> NoInfo, gfs |-> "", wafs |-> "",
     metar |-> <<>>, text |-> <<>>]

\* Dispatch that takes an undecodable datagram for a snapshot
Dispatch_GarbageStored(p) ==
    IF p.type = "garbage" THEN "snapshot"
    ELSE IF p = Bye THEN "break"
    ELSE IF p.type \notin {"dict", "str"} THEN "raise"
    ELSE IF ~HasInfo(p) THEN "append"
    ELSE "snapshot"

\* Dispatch with the test of line 148 written without its not
Dispatch_Inverted(p) ==
    IF p.type = "garbage" THEN "raise"
    ELSE IF p = Bye THEN "break"
    ELSE IF p.type \notin {"dict", "str"} THEN "raise"
    ELSE IF HasInfo(p) THEN "append"
    ELSE "snapshot"

\* the branch the loop body takes for the received datagram: pickle.loads raises on
\* an undecodable one, and 'info' in wdata raises on an object that is no container
Dispatch(p) ==
    IF p.type = "garbage" THEN "raise"
    ELSE IF p = Bye THEN "break"
    ELSE IF p.type \notin {"dict", "str"} THEN "raise"
    ELSE IF ~HasInfo(p) THEN "append"
    ELSE "snapshot"

\* weatherClient, lines 144-152: one datagram received, up to the first store
ThreadRecv(t) ==
    /\ thr[t] = "recv"
    /\ inbox # <<>>
    /\ LET p == Head(inbox)
           b == Dispatch(p)
       IN  /\ inbox' = Tail(inbox)
           /\ b = "append" => Len(queryResponses) < MaxResponses
           /\ queryResponses' = IF b = "append" THEN Append(queryResponses, p)
                                ELSE queryResponses
           /\ weatherData' = IF b = "snapshot" THEN p ELSE weatherData
           /\ thr' = [thr EXCEPT ![t] = CASE b = "raise" -> "dead"
                                          [] b = "break" -> "exited"
                                          [] b = "append" -> "recv"
                                          [] OTHER -> "flag"]
    /\ UNCHANGED <<toServer, connReset, newData, weatherClientThread, last_pos,
                   pluginVars, histVars, outVars, engineVars, srvVars, diskConf>>

\* weatherClient, line 153: self.newData = True
ThreadFlag(t) ==
    /\ thr[t] = "flag"
    /\ newData' = TRUE
    /\ thr' = [thr EXCEPT ![t] = "recv"]
    /\ UNCHANGED <<netVars, weatherData, queryResponses, weatherClientThread, last_pos,
                   pluginVars, histVars, outVars, engineVars, srvVars, diskConf>>

\* weatherClient, line 144: recv fails with the pending connection reset
ThreadReset(t) ==
    /\ thr[t] = "recv"
    /\ connReset
    /\ connReset' = FALSE
    /\ thr' = [thr EXCEPT ![t] = "dead"]
    /\ UNCHANGED <<toServer, inbox, weatherData, newData, queryResponses,
                   weatherClientThread, last_pos, pluginVars, histVars, outVars,
                   engineVars, srvVars, diskConf>>


\* Weather.shutdown
shutdown ==
    /\ weatherClientSend(<<Shutdown>>)
    /\ weatherClientThread' = 0

-----------------------------------------------------------------------------
(* PI_noaaWeather.py: class Weather, the wind layers *)

\* a wind layer [alt, hdg, speed, extra]; extra is a mapping from names to values
Layer(a, h, sp, e) == [alt |-> a, hdg |-> h, speed |-> sp, extra |-> e]

\* an empty mapping
Empty == [k \in {} |-> 0]

\* d[key] = v on a mapping
Put(d, key, v) == [k \in DOMAIN d \cup {key} |-> IF k = key THEN v ELSE d[k]]

\* the most a transition moves a value in one frame: rate * elapsed, for the
\* altitude of the surface layer (line 231), heading and speed (lines 321-322) and
\* the extras (line 327)
AltStep == 4
WindStep == 5
GustStep == 2

\* c.transition(value, key, elapsed, rate): the first call for a key returns the
\* value; later calls move the stored value toward it by at most rate * elapsed.
\* The result is recorded under the key.
transition(r, key, value, step) ==
    IF key \notin DOMAIN r THEN value
    ELSE IF value >= r[key]
         THEN (IF value - r[key] <= step THEN value ELSE r[key] + step)
         ELSE (IF r[key] - value <= step THEN value ELSE r[key] - step)

\* c.transitionClearReferences(exclude=[...]): the references of every layer index
\* that is not excluded are forgotten; a key is (layer index, name)
transitionClearReferences(r, exclude) ==
    [k \in {q \in DOMAIN r : q[1] \in exclude} |-> r[k]]

\* c.interpolate(t1, t2, alt1, alt2, alt): linear in the altitude; between two equal
\* altitudes there is nothing to weigh and the value is t2
interpolate(t1, t2, alt1, alt2, cur) ==
    IF alt2 = alt1 THEN t2 ELSE t1 + ((cur - alt1) * (t2 - t1)) \div (alt2 - alt1)

\* the extras that transWindLayer leaves in the layer's own mapping, lines 325-331
TransExtra(extra, id, r) ==
    [k \in DOMAIN extra |->
        IF k \in {"gust", "rh", "dew"} THEN transition(r, <<id, k>>, extra[k], GustStep)
        ELSE IF k = "gust_hdg" THEN 0
        ELSE extra[k]]

\* transWindLayer(wlayer, id, elapsed), lines 317-333: the layer returned (its extra
\* is the mapping object of wlayer, assigned in place) and the references recorded
transWindLayer(wlayer, id, r) ==
    LET hdg   == transition(r, <<id, "hdg">>, wlayer.hdg, WindStep)
        speed == transition(r, <<id, "speed">>, wlayer.speed, WindStep)
        extra == TransExtra(wlayer.extra, id, r)
        keys  == {<<id, "hdg">>, <<id, "speed">>} \cup
                 {<<id, k>> : k \in DOMAIN wlayer.extra \cap {"gust", "rh", "dew"}}
    IN  [layer |-> Layer(wlayer.alt, hdg, speed, extra),
         refs  |-> [k \in DOMAIN r \cup keys |->
                       IF k = <<id, "hdg">> THEN hdg
                       ELSE IF k = <<id, "speed">> THEN speed
                       ELSE IF k \in keys THEN extra[k[2]]
                       ELSE r[k]]]

\* interpolateWindLayer(wlayer1, wlayer2, current_altitude, nlayer), lines 349-393:
\* the layer returned, and the mapping object of wlayer1 as the call leaves it
\* (line 377 assigns variation in place).  The cosine weighted interpolations of
\* module c are taken as the linear one.
interpolateWindLayer(wlayer1, wlayer2, current_altitude) ==
    IF wlayer1.alt = wlayer2.alt
    THEN [layer |-> wlayer1, extra1 |-> wlayer1.extra]
    ELSE LET e1   == IF "variation" \notin DOMAIN wlayer1.extra
                     THEN Put(wlayer1.extra, "variation", 0) ELSE wlayer1.extra
             e2   == wlayer2.extra
             both == {k \in DOMAIN e1 : k \in DOMAIN e2}
             kept == {k \in DOMAIN e1 : k \notin DOMAIN e2 /\ k \notin {"temp", "dew"}}
             ip(a, b) == interpolate(a, b, wlayer1.alt, wlayer2.alt, current_altitude)
         IN  [layer  |-> Layer(current_altitude,
                               ip(wlayer1.hdg, wlayer2.hdg),
                               ip(wlayer1.speed, wlayer2.speed),
                               [k \in both \cup kept |->
                                   IF k \in both THEN ip(e1[k], e2[k]) ELSE e1[k]]),
              extra1 |-> e1]

\* the configuration values the wind and cloud code reads
Conf(agl, dist) == [metar_agl_limit |-> agl, metar_distance_limit |-> dist]

\* the station report as the wind code reads it: the keys present and their values
Metar(present, elevation, wind, distance, temperature, observed) ==
    [keys |-> present, elevation |-> elevation, wind |-> wind, distance |-> distance,
     temperature |-> temperature, clouds |-> observed]

\* a mapping without station data
NoMetar == Metar({}, 0, <<0, 0, 0>>, 0, <<0, 0>>, <<>>)

\* setWinds, lines 215-235: the extras of the synthetic surface layer (gust, the
\* metar marker, temperature and dewpoint in kelvin, taken to whole degrees)
SurfaceExtra(m) ==
    LET g == Put(Put(Empty, "gust", m.wind[3]), "metar", 1)
    IN  IF "temperature" \in m.keys
        THEN Put(Put(g, "temp", m.temperature[1] + 273), "dew", m.temperature[2] + 273)
        ELSE g

\* c.oat2msltemp(oat, alt): the temperature oat at the altitude alt projected to
\* sea level with the standard lapse rate, here 1 degree every 2 altitude units
oat2msltemp(oat, a) == oat + a \div 2

\* seaLevel that falls back on the top bracket layer itself
seaLevel_TopLayer(extra, winds, tlayer, cur, old) ==
    LET altLayer == winds[tlayer + 1]
        out(k, o) == IF k \in DOMAIN extra THEN oat2msltemp(extra[k] - 273, cur)
                     ELSE IF k \in DOMAIN altLayer.extra
                          THEN oat2msltemp(altLayer.extra[k] - 273, altLayer.alt)
                          ELSE o
    IN  [temp |-> out("temp", old.temp), dewp |-> out("dew", old.dewp)]

\* setWinds, lines 283-297: msltemp.value and msldewp.value after the call, for the
\* extras of the resolved layer, the layer list, the top index, the aircraft
\* altitude and the values before the call
seaLevel(extra, winds, tlayer, cur, old) ==
    LET nlayers == Len(winds)
        hasAlt  == nlayers > tlayer + 1
        out(k, o) == IF k \in DOMAIN extra THEN oat2msltemp(extra[k] - 273, cur)
                     ELSE IF hasAlt /\ k \in DOMAIN winds[tlayer + 2].extra
                          THEN oat2msltemp(winds[tlayer + 2].extra[k] - 273,
                                           winds[tlayer + 2].alt)
                          ELSE o
    IN  [temp |-> out("temp", old.temp), dewp |-> out("dew", old.dewp)]

\* Between that takes the bottom index 0 for False
Between_Truthy(blayer, tlayer) == blayer > 0 /\ blayer # tlayer

\* setWinds, line 266: if blayer is not False and blayer != tlayer
Between(blayer, tlayer) == blayer # -1 /\ blayer # tlayer

\* setWinds(winds, elapsed), lines 207-273, for the layer objects winds0 of the
\* snapshot, its station report m, the configuration cf, the aircraft altitude cur,
\* self.windAlts and the reference table r0.  Layer indices count from 0 as in the
\* code; blayer = -1 stands for blayer = False.
setWinds(winds0, m, cf, cur, wAlts, r0) ==
    LET surface == "wind" \in m.keys
        malt    == transition(r0, <<0, "metar_wind_alt">>,
                              m.elevation + cf.metar_agl_limit, AltStep)
        r1      == IF surface THEN Put(r0, <<0, "metar_wind_alt">>, malt) ELSE r0
        pop     == surface /\ Len(winds0) > 1 /\ winds0[1].alt < malt + cf.metar_agl_limit
        kept    == IF pop THEN Tail(winds0) ELSE winds0
        winds   == IF surface
                   THEN <<Layer(malt, m.wind[1], m.wind[2], SurfaceExtra(m))>> \o kept
                   ELSE kept
        \* the index in winds0 of the layer at position i of winds, 0 for the
        \* synthetic layer
        origin(i) == IF surface THEN (IF i = 0 THEN 0 ELSE i + (IF pop THEN 1 ELSE 0))
                     ELSE i + 1
        nlayers == Len(winds)
        above   == {i \in 0..(nlayers - 1) : winds[i + 1].alt > cur}
        tlayer  == IF above = {} THEN nlayers - 1
                   ELSE CHOOSE i \in above : \A j \in above : i <= j
        blayer  == IF above = {} THEN nlayers - 1 ELSE tlayer - 1
        clear   == wAlts # tlayer
        r2      == IF clear THEN transitionClearReferences(r1, {blayer, tlayer}) ELSE r1
        tw      == transWindLayer(winds[tlayer + 1], tlayer, r2)
        between == Between(blayer, tlayer)
        bw      == transWindLayer(winds[blayer + 1], blayer, tw.refs)
        ip      == interpolateWindLayer(tw.layer, bw.layer, cur)
    IN  [winds    |-> winds,
         surface  |-> surface,
         blayer   |-> blayer,
         tlayer   |-> tlayer,
         clear    |-> clear,
         exclude  |-> IF clear THEN {blayer, tlayer} ELSE {},
         windAlts |-> tlayer,
         refs     |-> IF between THEN bw.refs ELSE tw.refs,
         rwind    |-> IF between THEN ip.layer ELSE tw.layer,
         between  |-> between,
         twind    |-> tw.layer,
         bwind    |-> IF between THEN bw.layer ELSE tw.layer,
         \* the layer objects of the snapshot as the call leaves them
         snapshot |-> [j \in 1..Len(winds0) |->
                         IF origin(tlayer) = j
                         THEN [winds0[j] EXCEPT !.extra = IF between THEN ip.extra1
                                                          ELSE tw.layer.extra]
                         ELSE IF between /\ origin(blayer) = j
                              THEN [winds0[j] EXCEPT !.extra = bw.layer.extra]
                              ELSE winds0[j]]]

\* no setWinds call yet
NoCall ==
    [called |-> FALSE, winds |-> <<>>, surface |-> FALSE, blayer |-> -1, tlayer |-> -1,
     clear |-> FALSE, exclude |-> {}, prev |-> <<-1, -1>>, prevCalled |-> FALSE,
     station |-> NoMetar, alt |-> 0, between |-> FALSE,
     twind |-> Layer(0, 0, 0, Empty), bwind |-> Layer(0, 0, 0, Empty),
     msl |-> [temp |-> 0, dewp |-> 0]]

\* floopCallback, lines 1580-1582: setWinds(wdata['gfs']['winds'], elapsedMe) when
\* the forecast has wind layers
SetWinds ==
    /\ Len(snapWinds) > 0
    /\ \E res \in {setWinds(snapWinds, snapMetar, conf, alt, windAlts, refs)} :
           /\ snapWinds' = res.snapshot
           /\ windAlts' = res.windAlts
           /\ refs' = res.refs
           /\ rwind' = res.rwind
           /\ lastCall' = [called |-> TRUE, winds |-> res.winds, surface |-> res.surface,
                           blayer |-> res.blayer, tlayer |-> res.tlayer,
                           clear |-> res.clear, exclude |-> res.exclude,
                           prev |-> <<lastCall.blayer, lastCall.tlayer>>,
                           prevCalled |-> lastCall.called,
                           station |-> snapMetar, alt |-> alt,
                           between |-> res.between, twind |-> res.twind,
                           bwind |-> res.bwind, msl |-> msl]
           /\ msl' = seaLevel(res.rwind.extra, res.winds, res.tlayer, alt, msl)
    /\ UNCHANGED <<alt, snapMetar, conf, pubWinds, published, repeat, cloudVars, turbVars,
                   chanVars>>

\* floopCallback, line 1507: self.weather.alt = self.altdr.value
AltitudeRead(a) ==
    /\ alt' = a
    /\ UNCHANGED <<windAlts, snapWinds, snapMetar, conf, refs, rwind, pubWinds, published,
                   lastCall, repeat, msl, cloudVars, turbVars, chanVars>>

\* floopCallback, lines 1519-1520: c.transitionClearReferences() after an airport load
BulkClear ==
    /\ refs' = Empty
    /\ UNCHANGED <<alt, windAlts, snapWinds, snapMetar, conf, rwind, pubWinds, published,
                   lastCall, repeat, msl, cloudVars, turbVars, chanVars>>

\* weatherClient, line 152: a snapshot with the wind layers wl, the forecast clouds
\* gc and the station report m becomes the current one
Published(wl, gc, m) ==
    /\ published < MaxPublished
    /\ published' = published + 1
    /\ snapWinds' = wl
    /\ pubWinds' = wl
    /\ snapClouds' = gc
    /\ snapMetar' = m
    /\ UNCHANGED <<alt, windAlts, conf, refs, rwind, lastCall, repeat, msl, clouds, cloud_data,
                   cloudsCalled, assembled, turbVars, chanVars>>

-----------------------------------------------------------------------------
(* PI_noaaWeather.py: class Weather, the cloud layers *)

\* c.f2m(feet): feet to metres, to the whole metre
f2m(feet) == (feet * 3048 + 5000) \div 10000

\* c.limit(value, max, min): the value clamped to [min, max]
limit(value, max, min) == IF value > max THEN max ELSE IF value < min THEN min ELSE value

\* setClouds, lines 403-404 and 419: the cloud limits (max_cloud_height at 40000 ft)
minCloud == f2m(2000)
maxCloud == f2m(40000)
gfsCloudLimit0 == f2m(5600)

\* setClouds, line 407: the minimum redraw difference per slot
minRedraw == <<f2m(500), f2m(5000), f2m(10000)>>

\* setClouds, lines 409-415: the observed covers, their coverage and thickness
xpCover == [cv \in {"FEW", "SCT", "BKN", "OVC", "VV"} |->
              CASE cv = "FEW" -> 1 [] cv = "SCT" -> 2 [] cv = "BKN" -> 3 [] OTHER -> 4]
xpThick == [cv \in {"FEW", "SCT", "BKN", "OVC", "VV"} |->
              CASE cv = "FEW" -> f2m(2000) [] cv = "VV" -> f2m(6000) [] OTHER -> f2m(4000)]

\* cc2xp, lines 523-531: forecast cover in percent to the coverage 0..4 (exact for
\* the multiples of 25 and the covers above 89 of the model)
cc2xp(cover) ==
    IF cover * 4 < 100 /\ cover > 0 THEN 1
    ELSE IF cover > 89 THEN 4
    ELSE (cover * 4) \div 100

\* sequence helpers
RECURSIVE Reverse(_)
Reverse(q) == IF q = <<>> THEN <<>> ELSE Append(Reverse(Tail(q)), Head(q))

\* setClouds, lines 439-445: the top borrowed from the first forecast band that
\* overlaps the observed base, else the top given
RECURSIVE GfsTop(_, _, _)
GfsTop(gfsClouds, base, top) ==
    IF gfsClouds = <<>> THEN top
    ELSE LET g == Head(gfsClouds)
         IN  IF g[1] > 0 /\ g[1] - 1500 < base /\ base < g[2]
             THEN base + limit(g[2] - g[1], maxCloud, minCloud)
             ELSE GfsTop(Tail(gfsClouds), base, top)

\* setClouds, lines 435-437: a cover that is not in xpClouds stays the code string
\* of the station report, which is no number; the model writes it as this value
NotANumber == -1

\* setClouds, lines 431-453: the loop over the observed layers, from the top down;
\* every layer is appended, a cover that is not in xpClouds as it is
RECURSIVE Observed(_, _, _, _, _)
Observed(todo, gfsClouds, lastBase, maxTop, acc) ==
    IF todo = <<>> THEN [layers |-> acc, maxTop |-> maxTop]
    ELSE LET base  == Head(todo)[1]
             cv    == Head(todo)[2]
             top0  == IF cv \in DOMAIN xpThick THEN base + xpThick[cv] ELSE minCloud
             cover == IF cv \in DOMAIN xpCover THEN xpCover[cv] ELSE NotANumber
             top1  == GfsTop(gfsClouds, base, top0)
             top   == IF lastBase # 0 /\ top1 > lastBase THEN lastBase ELSE top1
         IN  Observed(Tail(todo), gfsClouds, base,
                      IF maxTop = 0 THEN top ELSE maxTop,
                      Append(acc, <<base, top, cover>>))

\* setClouds, lines 455-463: the forecast layers above the observed ones, while
\* fewer than three layers are assembled
RECURSIVE AddGfs(_, _, _, _)
AddGfs(todo, gfsCloudLimit, maxTop, acc) ==
    IF todo = <<>> THEN acc
    ELSE LET g   == Head(todo)
             lim == IF gfsCloudLimit > maxTop THEN gfsCloudLimit ELSE maxTop
         IN  IF Len(acc) < 3 /\ g[1] > lim
             THEN AddGfs(Tail(todo), gfsCloudLimit, maxTop,
                         <<(<<g[1], g[1] + limit(g[2] - g[1], maxCloud, minCloud),
                              cc2xp(g[3])>>)>> \o acc)
             ELSE AddGfs(Tail(todo), gfsCloudLimit, maxTop, acc)

\* setClouds, lines 466-479: forecast clouds only, from the top down
RECURSIVE GfsOnly(_, _, _)
GfsOnly(todo, lastBase, acc) ==
    IF todo = <<>> THEN acc
    ELSE LET g     == Head(todo)
             cover == cc2xp(g[3])
             top0  == IF cover < 3 THEN g[1] + minCloud
                      ELSE g[1] + limit(g[2] - g[1], maxCloud, minCloud)
             top   == IF lastBase > top0 THEN lastBase ELSE top0
         IN  IF cover > 0 /\ g[1] > 0 /\ g[2] > 0
             THEN GfsOnly(Tail(todo), g[1], Append(acc, <<g[1], top, cover>>))
             ELSE GfsOnly(Tail(todo), lastBase, acc)

\* setClouds, lines 417-493: the layers assembled from the forecast clouds gc and the
\* station report m, lowest first, after the push up
Assemble(gc, m, cf, haveData) ==
    LET useMetar == /\ haveData
                    /\ "distance" \in m.keys
                    /\ m.distance < cf.metar_distance_limit
                    /\ "clouds" \in m.keys
        gfsCloudLimit == IF useMetar THEN gfsCloudLimit0 + m.elevation ELSE gfsCloudLimit0
        obs      == Observed(Reverse(m.clouds), gc, 0, 0, <<>>)
        down     == IF useMetar THEN AddGfs(gc, gfsCloudLimit, obs.maxTop, obs.layers)
                    ELSE GfsOnly(Reverse(gc), 0, <<>>)
        up       == Reverse(down)
        pushed1  == IF Len(up) > 0 /\ Len(up) < 3 /\ up[1][1] > gfsCloudLimit
                    THEN <<(<<0, minCloud, 0>>)>> \o up ELSE up
        pushed2  == IF Len(up) > 0 /\ Len(pushed1) = 2 /\ pushed1[2][3] > gfsCloudLimit
                    THEN <<pushed1[1], <<pushed1[1][3], pushed1[1][3] + minCloud, 0>>,
                           pushed1[2]>>
                    ELSE pushed1
    IN  pushed2

\* setDrefIfDiff(dref, value, max_diff), lines 335-347: the value of the dataref after
\* the call; max_diff = -1 stands for max_diff = False
setDrefIfDiff(dref, value, max_diff) ==
    IF max_diff # -1
    THEN (IF (IF dref > value THEN dref - value ELSE value - dref) > max_diff
          THEN value ELSE dref)
    ELSE value

\* setDrefIfDiff, line 340: abs(dref.value - value) raises TypeError for a value
\* that is no number.  The slots (1..3) whose coverage write raises.
Raising(layers) == {i \in 1..3 : i <= Len(layers) /\ layers[i][3] = NotANumber}

\* setClouds, lines 495-503: the cloud slots after the layers are written (clouds
\* are not overridden).  A coverage write that raises ends setClouds: the base and
\* top of that slot are written, its coverage and the later slots are not.
SlotsSet(slots, layers, cur) ==
    LET first == IF Raising(layers) = {} THEN 4
                 ELSE CHOOSE i \in Raising(layers) : \A j \in Raising(layers) : i <= j
    IN  [i \in 1..3 |->
            IF i > first THEN slots[i]
            ELSE IF Len(layers) > i - 1
            THEN [bottom   |-> setDrefIfDiff(slots[i].bottom, layers[i][1],
                                             minRedraw[i] + cur \div 10),
                  top      |-> setDrefIfDiff(slots[i].top, layers[i][2],
                                             minRedraw[i] + cur \div 10),
                  coverage |-> IF i = first THEN slots[i].coverage
                               ELSE setDrefIfDiff(slots[i].coverage, layers[i][3], 1)]
            ELSE [slots[i] EXCEPT !.coverage = setDrefIfDiff(slots[i].coverage, 0, -1)]]

\* floopCallback, lines 1565-1566: self.weather.setClouds(); the slots are written
\* unless the clouds are overridden (line 495), and the layers are published (lines
\* 516-518) unless a coverage write raised
SetClouds ==
    /\ published > 0
    /\ LET layers == Assemble(snapClouds, snapMetar, conf, TRUE)
           set == "clouds" \notin override
       IN  /\ clouds' = IF set THEN SlotsSet(clouds, layers, alt) ELSE clouds
           /\ cloud_data' = IF set /\ Raising(layers) # {} THEN cloud_data ELSE layers
           /\ assembled' = layers
    /\ cloudsCalled' = TRUE
    /\ UNCHANGED <<snapClouds, windVars, turbVars, chanVars>>

-----------------------------------------------------------------------------
(* PI_noaaWeather.py: class Weather, the turbulence *)

\* conf.turbulence_probability, line 200
turbulence_probability == 2

\* c.randPattern('turbulence', turb, elapsed, 20, min_time=1): the value perturbed by
\* the random walk, whose present offset is j
randPattern(value, j) == value + j

\* the offsets of the random walk
Jitter == {0, 1}

\* setTurbulence that starts from the severity 1
setTurbulence_FromOne(turbulence, cur) ==
    LET n     == Len(turbulence)
        above == {i \in 1..n : turbulence[i][1] > cur}
        ci    == IF above = {} THEN n ELSE CHOOSE i \in above : \A j \in above : i <= j
        pi    == IF above = {} THEN n ELSE ci - 1
        turb  == IF n > 1
                 THEN (IF pi # 0
                       THEN interpolate(turbulence[pi][2], turbulence[ci][2],
                                        turbulence[pi][1], turbulence[ci][1], cur)
                       ELSE turbulence[ci][2])
                 ELSE 1
    IN  turb * turbulence_probability

\* setTurbulence(turbulence, elapsed), lines 182-200: the severity before the random
\* pattern, for the aircraft altitude cur.  ci is the index of clayer when the loop
\* ends, pi that of prevlayer (0 for prevlayer = False).
setTurbulence(turbulence, cur) ==
    LET n     == Len(turbulence)
        above == {i \in 1..n : turbulence[i][1] > cur}
        ci    == IF above = {} THEN n ELSE CHOOSE i \in above : \A j \in above : i <= j
        pi    == IF above = {} THEN n ELSE ci - 1
        turb  == IF n > 1
                 THEN (IF pi # 0
                       THEN interpolate(turbulence[pi][2], turbulence[ci][2],
                                        turbulence[pi][1], turbulence[ci][1], cur)
                       ELSE turbulence[ci][2])
                 ELSE 0
    IN  turb * turbulence_probability

\* no setTurbulence call yet
NoTurb == [called |-> FALSE, bands |-> <<>>, alt |-> 0, turb |-> 0]

\* floopCallback, lines 1585-1586: setTurbulence(wdata['wafs'], elapsedMe), lines
\* 182-205; the same value goes to the three slots
SetTurbulence ==
    /\ published > 0
    /\ \E j \in Jitter :
          LET turb == setTurbulence(snapWafs, alt)
          IN  /\ turbSlots' = [i \in 1..3 |-> randPattern(turb, j)]
              /\ lastTurb' = [called |-> TRUE, bands |-> snapWafs, alt |-> alt,
                              turb |-> turb]
    /\ UNCHANGED <<snapWafs, windVars, cloudVars, chanVars>>

\* weatherClient, line 152: a snapshot with the turbulence bands tb becomes the
\* current one
PublishedWafs(tb) ==
    /\ published < MaxPublished
    /\ published' = published + 1
    /\ snapWafs' = tb
    /\ UNCHANGED <<alt, windAlts, snapWinds, snapMetar, conf, refs, rwind, pubWinds,
                   lastCall, repeat, msl, cloudVars, turbSlots, lastTurb, chanVars>>

\* what a receipt and the new-data block leave alone besides newData and
\* newAptLoaded
frameUnch ==
    UNCHANGED <<srvVars, diskConf, netVars, weatherData, queryResponses,
                weatherClientThread, thr, last_pos, enabled, parserate, metar_source,
                flcounter, fltime, lastParse, latdr, londr, floopRegistered, fpc, wdata,
                histVars, outVars>>

\* weatherClient, lines 152-153: self.weatherData = wdata; self.newData = True, for a
\* snapshot with the wind layers wl, the forecast clouds gc and the station report m
Received(wl, gc, m) ==
    /\ published < MaxReceived
    /\ published' = published + 1
    /\ repeat' = (published > 0 /\ wl = pubWinds /\ gc = snapClouds /\ m = snapMetar)
    /\ snapWinds' = wl
    /\ pubWinds' = wl
    /\ snapClouds' = gc
    /\ snapMetar' = m
    /\ newData' = TRUE
    /\ UNCHANGED <<alt, windAlts, conf, refs, rwind, lastCall, msl, clouds, cloud_data,
                   cloudsCalled, assembled, turbVars, newAptLoaded>>
    /\ frameUnch

\* NewData that clears the transitions whether or not an airport was loaded
NewData_AlwaysClear ==
    /\ newData
    /\ published > 0
    /\ refs' = Empty
    /\ newAptLoaded' = FALSE
    /\ newData' = FALSE
    /\ UNCHANGED <<alt, windAlts, snapWinds, snapMetar, conf, rwind, pubWinds, published,
                   lastCall, repeat, msl, cloudVars, turbVars>>
    /\ frameUnch

\* NewData that forgets the bracket index
NewData_Resets ==
    /\ newData
    /\ published > 0
    /\ refs' = IF newAptLoaded THEN Empty ELSE refs
    /\ newAptLoaded' = FALSE
    /\ newData' = FALSE
    /\ windAlts' = -1
    /\ UNCHANGED <<alt, snapWinds, snapMetar, conf, rwind, pubWinds, published,
                   lastCall, repeat, msl, cloudVars, turbVars>>
    /\ frameUnch

\* floopCallback, lines 1515-1562: the new-data block of a frame that has a snapshot,
\* as far as the wind code sees it: the bulk clear of the transitions when an airport
\* was loaded (lines 1519-1522) and newData = False (line 1562)
NewData ==
    /\ newData
    /\ published > 0
    /\ refs' = IF newAptLoaded THEN Empty ELSE refs
    /\ newAptLoaded' = FALSE
    /\ newData' = FALSE
    /\ UNCHANGED <<alt, windAlts, snapWinds, snapMetar, conf, rwind, pubWinds, published,
                   lastCall, repeat, msl, cloudVars, turbVars>>
    /\ frameUnch

-----------------------------------------------------------------------------
(* PI_noaaWeather.py: class PythonInterface *)

RECURSIVE IntToStr(_)
IntToStr(n) ==
    IF n < 10 THEN <<Digits[n + 1]>> ELSE IntToStr(n \div 10) \o <<Digits[(n % 10) + 1]>>

\* "%.2f" % x, x in hundredths
FormatF2(x) ==
    LET mag == IF x < 0 THEN -x ELSE x
    IN  (IF x < 0 THEN <<"-">> ELSE <<>>) \o IntToStr(mag \div 100) \o <<".">>
        \o <<Digits[((mag \div 10) % 10) + 1], Digits[(mag % 10) + 1]>>

\* round(x, 1), x and the result in hundredths (the positions of the model are no ties)
Round1(x) ==
    IF x >= 0 THEN 10 * ((x + 5) \div 10) ELSE -(10 * ((-x + 5) \div 10))

\* "?%.2f|%.2f\n" % (lat, lon)
PositionQuery(lat, lon) == <<"?">> \o FormatF2(lat) \o <<"|">> \o FormatF2(lon) \o <<"\n">>

\* the 60 of line 1498
RefreshSecs == 60

\* QueryDue with the position test moved out of the parserate test
QueryDue_PositionFirst(counter, time) ==
    \/ /\ weatherClientThread # 0
       /\ <<Round1(latdr), Round1(londr)>> # last_pos
    \/ /\ counter > parserate
       /\ weatherClientThread # 0
       /\ (time - lastParse) > RefreshSecs

\* QueryDue without the 60 second test
QueryDue_NoRefresh(counter, time) ==
    /\ counter > parserate
    /\ weatherClientThread # 0
    /\ <<Round1(latdr), Round1(londr)>> # last_pos

\* floopCallback, lines 1493 and 1498: a position query is due
QueryDue(counter, time) ==
    /\ counter > parserate
    /\ weatherClientThread # 0
    /\ \/ <<Round1(latdr), Round1(londr)>> # last_pos
       \/ (time - lastParse) > RefreshSecs

\* FloopBegin with the enabled test before the ad-hoc response
FloopBegin_EnabledFirst(e) ==
    /\ fpc = "idle"
    /\ floopRegistered
    /\ queryResponses' = IF enabled /\ queryResponses # <<>>
                         THEN SubSeq(queryResponses, 1, Len(queryResponses) - 1)
                         ELSE queryResponses
    /\ msg' = IF enabled /\ queryResponses # <<>>
              THEN queryResponses[Len(queryResponses)] ELSE msg
    /\ frameSrc' = {}
    /\ frameError' = FALSE
    /\ frameOut' = {}
    /\ IF ~enabled
       THEN /\ UNCHANGED <<flcounter, fltime, lastParse, last_pos, toServer, connReset,
                           fpc, accum>>
       ELSE LET counter == flcounter + e
                time    == fltime + e
                lat     == Round1(latdr)
                lon     == Round1(londr)
            IN  /\ fltime' = time
                /\ IF QueryDue(counter, time)
                   THEN /\ last_pos' = <<lat, lon>>
                        /\ weatherClientSend(<<PositionQuery(lat, lon)>>)
                        /\ flcounter' = 0
                        /\ lastParse' = time
                        /\ accum' = 0
                   ELSE /\ flcounter' = counter
                        /\ accum' = accum + e
                        /\ UNCHANGED <<lastParse, last_pos, toServer, connReset>>
                /\ fpc' = "read"
    /\ UNCHANGED <<inbox, weatherData, newData, weatherClientThread, thr, enabled,
                   parserate, metar_source, latdr, londr, newAptLoaded, floopRegistered,
                   wdata, stopped, ready, override, engineVars, srvVars, diskConf>>

\* Disabled that is never true: the frame goes on whatever the enable box holds
Disabled_Never == FALSE

\* floopCallback, lines 1481-1482: if not self.conf.enabled: return -1
Disabled == ~enabled

\* floopCallback, lines 1475-1504: the ad-hoc response, the enabled test, the
\* counters and the position query, for a frame of elapsedMe = e
FloopBegin(e) ==
    /\ fpc = "idle"
    /\ floopRegistered
    /\ queryResponses' = IF queryResponses # <<>>
                         THEN SubSeq(queryResponses, 1, Len(queryResponses) - 1)
                         ELSE queryResponses
    /\ msg' = IF queryResponses # <<>> THEN queryResponses[Len(queryResponses)] ELSE msg
    /\ frameSrc' = {}
    /\ frameError' = FALSE
    /\ frameOut' = {}
    /\ IF Disabled
       THEN /\ UNCHANGED <<flcounter, fltime, lastParse, last_pos, toServer, connReset,
                           fpc, accum>>
       ELSE LET counter == flcounter + e
                time    == fltime + e
                lat     == Round1(latdr)
                lon     == Round1(londr)
            IN  /\ fltime' = time
                /\ IF QueryDue(counter, time)
                   THEN /\ last_pos' = <<lat, lon>>
                        /\ weatherClientSend(<<PositionQuery(lat, lon)>>)
                        /\ flcounter' = 0
                        /\ lastParse' = time
                        /\ accum' = 0
                   ELSE /\ flcounter' = counter
                        /\ accum' = accum + e
                        /\ UNCHANGED <<lastParse, last_pos, toServer, connReset>>
                /\ fpc' = "read"
    /\ UNCHANGED <<inbox, weatherData, newData, weatherClientThread, thr, enabled,
                   parserate, metar_source, latdr, londr, newAptLoaded, floopRegistered,
                   wdata, stopped, ready, override, engineVars, srvVars, diskConf>>

\* floopCallback, lines 1507-1508: wdata = self.weather.weatherData
FloopRead ==
    /\ fpc = "read"
    /\ wdata' = weatherData
    /\ fpc' = "check"
    /\ UNCHANGED <<enabled, parserate, metar_source, flcounter, fltime, lastParse, latdr,
                   londr, newAptLoaded, floopRegistered, weatherVars, netVars, histVars,
                   outVars, engineVars, srvVars, diskConf>>

\* the frame returns: its locals are gone
FrameEnd(err) ==
    /\ fpc' = "idle"
    /\ wdata' = PyFalse
    /\ frameError' = err

\* FloopCheck that publishes ready = 1 before it returns for want of a snapshot
FloopCheck_ReadyOnReturn ==
    /\ fpc = "check"
    /\ IF weatherData = PyFalse
       THEN FrameEnd(FALSE) /\ ready' = 1
       ELSE /\ fpc' = "new"
            /\ UNCHANGED <<wdata, frameError, ready>>
    /\ UNCHANGED <<enabled, parserate, metar_source, flcounter, fltime, lastParse, latdr,
                   londr, newAptLoaded, floopRegistered, weatherVars, netVars, frameSrc,
                   accum, stopped, msg, frameOut, override, engineVars, srvVars,
                   diskConf>>

\* floopCallback, lines 1511-1512: return if self.weather.weatherData is False
FloopCheck ==
    /\ fpc = "check"
    /\ IF weatherData = PyFalse
       THEN FrameEnd(FALSE)
       ELSE /\ fpc' = "new"
            /\ UNCHANGED <<wdata, frameError>>
    /\ UNCHANGED <<enabled, parserate, metar_source, flcounter, fltime, lastParse, latdr,
                   londr, newAptLoaded, floopRegistered, weatherVars, netVars, frameSrc,
                   accum, stopped, msg, outVars, engineVars, srvVars, diskConf>>

\* p[k] is evaluated without TypeError or KeyError
HasKey(p, k) == p.type = "dict" /\ k \in p.keys

\* Written that lets the winds through whatever override_winds holds
Written_WindsAlways(outs) == outs \ (override \ {"wind"})

\* if not self.data.override_<output>.value, lines 495, 1528, 1550, 1557, 1572, 1580
\* and 1585: of the outputs a frame would write, those that are not overridden
Written(outs) == outs \ override

\* floopCallback, lines 1515-1560: if self.weather.newData, the bulk clear of the
\* transitions on airport load, then the metar values of wdata: visibility when the
\* station report has it, precipitation, thunderstorm and runway friction, each
\* written to the simulator unless its override is set
FloopNew ==
    /\ fpc = "new"
    /\ IF newData
       THEN IF HasKey(wdata, "metar")
            THEN /\ frameSrc' = frameSrc \cup {wdata}
                 /\ frameOut' = frameOut \cup
                        Written({"precipitation", "friction"} \cup
                                (IF wdata.metar # <<>> THEN {"visibility"} ELSE {}))
                 /\ newAptLoaded' = FALSE
                 /\ fpc' = "clear"
                 /\ UNCHANGED <<wdata, frameError>>
            ELSE /\ FrameEnd(TRUE)
                 /\ newAptLoaded' = FALSE
                 /\ UNCHANGED <<frameSrc, frameOut>>
       ELSE /\ fpc' = "pressure"
            /\ UNCHANGED <<wdata, frameError, frameSrc, frameOut, newAptLoaded>>
    /\ UNCHANGED <<enabled, parserate, metar_source, flcounter, fltime, lastParse, latdr,
                   londr, floopRegistered, weatherVars, netVars, accum, stopped, msg, ready,
                   override, engineVars, srvVars, diskConf>>

\* floopCallback, line 1562: self.weather.newData = False
FloopClear ==
    /\ fpc = "clear"
    /\ newData' = FALSE
    /\ fpc' = "clouds"
    /\ UNCHANGED <<weatherData, queryResponses, weatherClientThread, thr, last_pos,
                   enabled, parserate, metar_source, flcounter, fltime, lastParse, latdr,
                   londr, newAptLoaded, floopRegistered, wdata, netVars, histVars,
                   outVars, engineVars, srvVars, diskConf>>

\* setClouds, lines 397-400: the forecast clouds of self.weatherData
FloopCloudsGfs ==
    /\ fpc = "clouds"
    /\ IF HasKey(weatherData, "gfs")
       THEN /\ frameSrc' = frameSrc \cup {weatherData}
            /\ fpc' = "clouds2"
            /\ UNCHANGED <<wdata, frameError>>
       ELSE /\ FrameEnd(TRUE)
            /\ UNCHANGED frameSrc
    /\ UNCHANGED <<enabled, parserate, metar_source, flcounter, fltime, lastParse, latdr,
                   londr, newAptLoaded, floopRegistered, weatherVars, netVars,
                   accum, stopped, msg, outVars, engineVars, srvVars, diskConf>>

\* setClouds, lines 423-518: the observed clouds of self.weatherData and the cloud
\* slots; then floopCallback, line 1569: updateData(wdata), lines 599-602
FloopCloudsMetar ==
    /\ fpc = "clouds2"
    /\ IF Truthy(weatherData) => HasKey(weatherData, "metar")
       THEN /\ frameSrc' = frameSrc \cup {weatherData, wdata}
            /\ frameOut' = frameOut \cup Written({"clouds"})
            /\ ready' = IF Truthy(wdata) THEN 1 ELSE 0
            /\ fpc' = "pressure"
            /\ UNCHANGED <<wdata, frameError>>
       ELSE /\ FrameEnd(TRUE)
            /\ UNCHANGED <<frameSrc, frameOut, ready>>
    /\ UNCHANGED <<enabled, parserate, metar_source, flcounter, fltime, lastParse, latdr,
                   londr, newAptLoaded, floopRegistered, weatherVars, netVars,
                   accum, stopped, msg, override, engineVars, srvVars, diskConf>>

\* floopCallback, lines 1572-1577: the pressure of the station report, else of the
\* forecast, is evaluated without error; nothing is evaluated when the pressure is
\* overridden
PressureOk ==
    \/ "pressure" \in override
    \/ HasKey(wdata, "metar") /\ (wdata.metar = <<>> => HasKey(wdata, "gfs"))

\* WindsOk that holds only in a frame that took the new-data path
WindsOk_NewDataOnly ==
    /\ PressureOk
    /\ HasKey(wdata, "gfs")
    /\ wdata.gfs # "" => weatherData.type = "dict"
    /\ "clouds" \in frameOut

\* floopCallback, lines 1580-1582, and setWinds, line 213: the winds of the forecast
\* and, when it has any, the station report of self.weatherData
WindsOk ==
    /\ PressureOk
    /\ \/ "wind" \in override
       \/ /\ HasKey(wdata, "gfs")
          /\ wdata.gfs # "" => weatherData.type = "dict"

\* floopCallback, lines 1585-1586: setTurbulence(wdata['wafs'])
TurbulenceOk == WindsOk /\ ("turbulence" \in override \/ HasKey(wdata, "wafs"))

\* floopCallback, lines 1572-1588: pressure, winds (with the sea-level temperature)
\* and turbulence of wdata, each written before the next is evaluated; setWinds,
\* lines 213-238, takes the surface layer from the metar of self.weatherData
FloopWinds ==
    /\ fpc = "pressure"
    /\ frameOut' = frameOut
          \cup Written(IF PressureOk /\ (wdata.metar # <<>> \/ wdata.gfs # "")
                       THEN {"pressure"} ELSE {})
          \cup (IF WindsOk /\ wdata.gfs # "" /\ Written({"wind"}) # {}
                THEN {"wind", "msltemp"} ELSE {})
          \cup Written(IF TurbulenceOk THEN {"turbulence"} ELSE {})
    /\ frameSrc' = frameSrc
          \cup (IF PressureOk /\ "pressure" \notin override THEN {wdata} ELSE {})
          \cup (IF WindsOk /\ "wind" \notin override /\ wdata.gfs # ""
                   /\ HasKey(weatherData, "metar")
                THEN {weatherData} ELSE {})
    /\ FrameEnd(~TurbulenceOk)
    /\ UNCHANGED <<enabled, parserate, metar_source, flcounter, fltime, lastParse, latdr,
                   londr, newAptLoaded, floopRegistered, weatherVars, netVars,
                   accum, stopped, msg, ready, override, engineVars, srvVars,
                   diskConf>>


\* XPluginReceiveMessage, lines 1631-1633: XPLM_MSG_AIRPORT_LOADED
AirportLoaded ==
    /\ fpc = "idle"
    /\ startWeatherClient
    /\ newAptLoaded' = TRUE
    /\ UNCHANGED <<weatherData, newData, queryResponses, last_pos, enabled, parserate,
                   metar_source, flcounter, fltime, lastParse, latdr, londr,
                   floopRegistered, fpc, wdata, netVars, frameSrc, accum,
                   frameError, stopped, msg, outVars, engineVars, srvVars, diskConf>>

\* aboutWindowHandler, lines 994-1073: the Apply & Save button, with the state of the
\* enable check box and the selected metar source.  XPluginStop destroys the window.
SaveButton(en, src) ==
    LET msgs == <<Reload>> \o (IF src # metar_source THEN <<ResetMetar>> ELSE <<>>)
    IN  /\ fpc = "idle"
        /\ floopRegistered
        /\ enabled' = en
        /\ metar_source' = src
        /\ diskConf' = src
        /\ weatherClientSend(msgs)
        /\ startWeatherClient
        /\ newData' = TRUE
        /\ newAptLoaded' = TRUE
        /\ UNCHANGED <<inbox, weatherData, queryResponses, last_pos, parserate, flcounter,
                       fltime, lastParse, latdr, londr, floopRegistered, fpc, wdata,
                       frameSrc, accum, frameError, stopped, msg, outVars, engineVars,
                       srvVars>>

\* metarQuery, lines 1326-1338, for the text of the input field.  XPluginStop
\* destroys the window.
metarQuery(query) ==
    LET msgs == IF Len(query) = 4 THEN <<(<<"?">> \o query)>> ELSE <<>>
    IN  /\ fpc = "idle"
        /\ floopRegistered
        /\ weatherClientSend(msgs)
        /\ UNCHANGED <<inbox, weatherVars, pluginVars, frameSrc, accum,
                       frameError, stopped, msg, outVars, engineVars, srvVars, diskConf>>

\* XPluginStop, lines 1590-1622
XPluginStop ==
    /\ fpc = "idle"
    /\ floopRegistered' = FALSE
    /\ shutdown
    /\ stopped' = IF weatherClientThread # 0 /\ srvPc \in {"test", "select"}
                  THEN stopped \cup {weatherClientThread} ELSE stopped
    /\ diskConf' = metar_source
    /\ UNCHANGED <<inbox, weatherData, newData, queryResponses, thr, last_pos, enabled,
                   parserate, metar_source, flcounter, fltime, lastParse, latdr, londr,
                   newAptLoaded, fpc, wdata, frameSrc, accum, frameError, msg,
                   outVars, engineVars, srvVars>>

\* the aircraft moves: the simulator writes the position datarefs (which nothing
\* reads once the flight loop is unregistered)
Lats == {1231, 1234, 1262}
ConcLats == {1234, 1262}
Lons == {-567}

Move(lats) ==
    /\ fpc = "idle"
    /\ floopRegistered
    /\ \E la \in lats, lo \in Lons :
          /\ <<la, lo>> # <<latdr, londr>>
          /\ latdr' = la
          /\ londr' = lo
    /\ UNCHANGED <<enabled, parserate, metar_source, flcounter, fltime, lastParse,
                   newAptLoaded, floopRegistered, fpc, wdata, weatherVars, netVars,
                   histVars, outVars, engineVars, srvVars, diskConf>>

-----------------------------------------------------------------------------
(* The server process as part of a system *)

plugUnch == UNCHANGED <<weatherVars, pluginVars, histVars, outVars, engineVars>>

\* the requests any local process may send to the server's port
SpecQuery == <<"?", "1", "2", ".", "3", "4", "|", "-", "5", ".", "6", "7">>
Requests ==
    { Ping, Reload, ResetMetar, Shutdown, Shutdown \o <<"\n">>,
      SpecQuery, <<"?", "7", "|", "-", "8", "\n">>,
      <<"?", "E", "G", "L", "L">>,
      <<"?", "E", "G", "L">>,
      <<"?", "E", "G", "L", "L", "X">>,
      <<"?", "a", "|", "b">>,
      <<"h", "e", "l", "l", "o">> }

\* getClosestStation: the station found near a position, if any
ClosestStations == Stations \cup {NoStation}

\* serve_forever handles one datagram that some other local process sent; the
\* response goes to that process
ServeAny ==
    /\ srvPc = "select"
    /\ \E raw \in Requests, apt \in ClosestStations :
          /\ handle(raw, apt)
          /\ lastReq' = raw
          /\ lastSent' = HandleSends(Strip(raw), apt)
    /\ srvPc' = "test"
    /\ UNCHANGED <<toServer, inbox, connReset>>
    /\ plugUnch

\* serve_forever handles the oldest datagram the plugin sent; the response goes to
\* the plugin's socket
ServeQueued ==
    /\ srvPc = "select"
    /\ toServer # <<>>
    /\ \E apt \in Stations :
          /\ handle(Head(toServer), apt)
          /\ inbox' = Deliver(inbox, HandleSends(Strip(Head(toServer)), apt))
    /\ UNCHANGED <<lastReq, lastSent>>
    /\ toServer' = Tail(toServer)
    /\ srvPc' = "test"
    /\ UNCHANGED connReset
    /\ plugUnch

\* the server process ends: its socket is closed and what it held is gone
ProcessExit ==
    /\ ConfSave
    /\ toServer' = <<>>
    /\ UNCHANGED <<inbox, connReset>>
    /\ plugUnch

\* conf.pluginSave() of the plugin rewrites the configuration file
SettingsWritten ==
    /\ \E src \in MetarSources : src # diskConf /\ diskConf' = src
    /\ UNCHANGED <<srvVars, netVars>>
    /\ plugUnch

\* a datagram sent to the server is lost
DatagramLost ==
    /\ toServer # <<>>
    /\ toServer' = Tail(toServer)
    /\ UNCHANGED <<inbox, connReset, srvVars, diskConf>>
    /\ plugUnch

ServerInit ==
    /\ srvPc = "test"
    /\ shutdown_request = FALSE
    /\ shutNow = 0
    /\ gfs_lastgrib = NoGrib
    /\ wafs_lastgrib = NoGrib
    /\ srvConf = diskConf
    /\ metarDb = diskConf
    /\ gfs_die = FALSE
    /\ confSaved = FALSE
    /\ lastReq = <<>>
    /\ lastSent = <<>>

\* XPluginStart and Weather.__init__; last_lat, last_lon = False, False compare
\* equal to 0.0
PluginInit ==
    /\ toServer = <<>>
    /\ inbox = <<>>
    /\ connReset = FALSE
    /\ weatherData = PyFalse
    /\ newData = FALSE
    /\ queryResponses = <<>>
    /\ weatherClientThread = 0
    /\ thr = [t \in Threads |-> "unborn"]
    /\ last_pos = <<0, 0>>
    /\ metar_source = diskConf
    /\ flcounter = 0
    /\ fltime = 1
    /\ lastParse = 0
    /\ newAptLoaded = FALSE
    /\ floopRegistered = TRUE
    /\ fpc = "idle"
    /\ wdata = PyFalse
    /\ frameSrc = {}
    /\ accum = 0
    /\ frameError = FALSE
    /\ stopped = {}
    /\ msg = PyFalse
    /\ ready = 0
    /\ override = {}
    /\ frameOut = {}
    /\ alt = 0
    /\ windAlts = -1
    /\ snapWinds = <<>>
    /\ snapMetar = NoMetar
    /\ snapClouds = <<>>
    /\ clouds = [i \in 1..3 |-> [bottom |-> 0, top |-> 0, coverage |-> 0]]
    /\ cloud_data = <<>>
    /\ cloudsCalled = FALSE
    /\ assembled = <<>>
    /\ snapWafs = <<>>
    /\ turbSlots = [i \in 1..3 |-> 0]
    /\ lastTurb = NoTurb
    /\ pubWinds = <<>>
    /\ published = 0
    /\ repeat = FALSE
    /\ msl = [temp |-> 15, dewp |-> 10]
    /\ refs = Empty
    /\ rwind = Layer(0, 0, 0, Empty)
    /\ lastCall = NoCall

-----------------------------------------------------------------------------
(* SpecServer: the server process alone, with any process sending requests *)

InitServer ==
    /\ diskConf \in MetarSources
    /\ ServerInit
    /\ PluginInit
    /\ conf = Conf(1, 10)
    /\ enabled = TRUE
    /\ parserate = 1
    /\ latdr = 1234
    /\ londr = -567

SrvLoopTest == LoopTest /\ UNCHANGED netVars /\ plugUnch
SrvSelectTimeout == SelectTimeout /\ UNCHANGED netVars /\ plugUnch
SrvShutNowRun == ShutNowRun /\ UNCHANGED netVars /\ plugUnch
SrvKeyboardInterrupt == KeyboardInterrupt /\ UNCHANGED netVars /\ plugUnch
SrvDieSet == DieSet /\ UNCHANGED netVars /\ plugUnch
SrvGfsRefresh == GfsRefresh /\ UNCHANGED netVars /\ plugUnch
SrvWafsRefresh == WafsRefresh /\ UNCHANGED netVars /\ plugUnch

NextServer ==
    \/ ServeAny
    \/ SrvLoopTest
    \/ SrvSelectTimeout
    \/ SrvShutNowRun
    \/ SrvKeyboardInterrupt
    \/ SrvDieSet
    \/ ProcessExit
    \/ SrvGfsRefresh
    \/ SrvWafsRefresh
    \/ SettingsWritten

SpecServer == InitServer /\ [][NextServer]_vars

\* The main thread runs on after each statement, select() returns within its poll
\* interval, and a started thread gets to run.
SpecServerFair ==
    /\ SpecServer
    /\ WF_vars(SrvLoopTest)
    /\ WF_vars(SrvSelectTimeout)
    /\ WF_vars(SrvShutNowRun)
    /\ WF_vars(SrvDieSet)
    /\ WF_vars(ProcessExit)

\* a step of the server that handles the datagram raw
Handles(raw) == srvPc = "select" /\ srvPc' = "test" /\ lastReq' = raw /\ ServeAny

\* the text of a request: the datagram without the characters the server strips
\* from its ends
Text(raw) == Strip(raw)

\* position requests of the model with the latitude and longitude they name
QueryTable ==
    { <<SpecQuery, 1234, -567>>,
      <<(<<"?", "7", "|", "-", "8", "\n">>), 700, -800>> }

\* C6: a position query ?<lat>|<lon> is answered by exactly one datagram, which has
\* the key info with info.lat and info.lon the queried values, info.gfs_cycle the
\* latest forecast cycle id or 'na' when there is none, and info.wafs_cycle the
\* latest turbulence cycle id or 'na' when there is none.
C6_PositionQuery ==
    [][\A q \in QueryTable :
          Handles(q[1]) =>
             /\ Len(lastSent') = 1
             /\ "info" \in lastSent'[1].keys
             /\ lastSent'[1].info.lat = q[2]
             /\ lastSent'[1].info.lon = q[3]
             /\ lastSent'[1].info.gfs_cycle =
                    (IF gfs_lastgrib \in {"X", "Y"} THEN gfs_lastgrib ELSE "na")
             /\ lastSent'[1].info.wafs_cycle =
                    (IF wafs_lastgrib = "W" THEN "W" ELSE "na")]_vars

\* the query of the specification was answered by a server that holds forecast
\* cycle X and no turbulence cycle
C6_Witness ==
    /\ lastReq = SpecQuery
    /\ Len(lastSent) = 1
    /\ lastSent[1].info = [lat |-> 1234, lon |-> -567, wafs_cycle |-> "na", gfs_cycle |-> "X"]
    /\ gfs_lastgrib = "X"
    /\ wafs_lastgrib = NoGrib

\* the request is a position query or a station query
Answerable(text) ==
    /\ text # <<>>
    /\ text[1] = "?"
    /\ \/ \E i \in 1..Len(text) : text[i] = "|"
       \/ Len(text) = 5

ControlMessages == {Ping, Reload, ResetMetar, Shutdown}

\* C7: the server sends a datagram in reply to a request only if the request starts
\* with ? and either contains | or is ? plus 4 characters; !ping, !reload,
\* !resetMetar and !shutdown cause no datagram; no request causes more than one.
C7_ResponseRule ==
    [][\A raw \in Requests :
          Handles(raw) =>
             /\ Len(lastSent') <= 1
             /\ Len(lastSent') = 1 => Answerable(Text(raw))
             /\ Text(raw) \in ControlMessages => lastSent' = <<>>]_vars

\* a station query was answered, and so was none of the control messages
C7_Witness ==
    /\ lastReq = <<"?", "E", "G", "L", "L">>
    /\ Len(lastSent) = 1
    /\ lastSent[1].metar = <<"E", "G", "L", "L">>

\* C8: handling !reload reloads the server configuration in place, handling
\* !resetMetar reinitializes the station-report source (with the source the
\* configuration names); both leave the cached cycle ids unchanged.
C8_ControlEffects ==
    [][/\ Handles(Reload) =>
             /\ srvConf' = diskConf
             /\ UNCHANGED <<gfs_lastgrib, wafs_lastgrib>>
       /\ Handles(ResetMetar) =>
             /\ metarDb' = srvConf
             /\ UNCHANGED <<gfs_lastgrib, wafs_lastgrib>>]_vars

\* C9: after the server handles !shutdown its request loop eventually exits; then
\* the refresh worker's die flag is set and the configuration is saved, and only
\* then; no request is handled or answered once the loop has exited.
C9_ServerShutdown ==
    /\ (shutNow > 0) ~> (srvPc \in {"stopped", "saving", "done"})
    /\ (srvPc = "stopped") ~> (gfs_die /\ confSaved)
    /\ [](gfs_die => srvPc \in {"saving", "done"})
    /\ [](confSaved => gfs_die /\ srvPc = "done")
    /\ [][srvPc \notin {"test", "select"} => UNCHANGED <<lastReq, lastSent>>]_vars

\* the server has handled !shutdown as its last request and has ended
C9_Witness ==
    /\ lastReq = Shutdown
    /\ srvPc = "done"
    /\ gfs_die
    /\ confSaved


-----------------------------------------------------------------------------
(* Spec: the plugin (main thread and receive threads) with its server *)

\* elapsedMe of the frames, in seconds
ConcElapsed == {0, 2}

\* the text of the metar query window's input field
QueryInputs == {<<"E", "G", "L", "L">>, <<"E", "G">>}

Init ==
    /\ diskConf = "NOAA"
    /\ ServerInit
    /\ PluginInit
    /\ conf = Conf(1, 10)
    /\ enabled = TRUE
    /\ parserate = 1
    /\ latdr = 1234
    /\ londr = -567

FloopFrame == \E e \in ConcElapsed : fltime + e <= ConcMaxTime /\ FloopBegin(e)
Save == SaveButton(TRUE, metar_source)
Fly == Move(ConcLats)
MetarQueryButton == \E q \in QueryInputs : metarQuery(q)
ClientPing == \E t \in Threads : ThreadPing(t)
ClientRecv == \E t \in Threads : ThreadRecv(t)
ClientFlag == \E t \in Threads : ThreadFlag(t)
ClientReset == \E t \in Threads : ThreadReset(t)

Next ==
    \/ AirportLoaded
    \/ Save
    \/ MetarQueryButton
    \/ XPluginStop
    \/ Fly
    \/ FloopFrame
    \/ FloopRead
    \/ FloopCheck
    \/ FloopNew
    \/ FloopClear
    \/ FloopCloudsGfs
    \/ FloopCloudsMetar
    \/ FloopWinds
    \/ ClientPing
    \/ ClientRecv
    \/ ClientFlag
    \/ ClientReset
    \/ ServeQueued
    \/ SrvLoopTest
    \/ SrvSelectTimeout
    \/ SrvShutNowRun
    \/ SrvDieSet
    \/ ProcessExit

Spec == Init /\ [][Next]_vars

\* C2: whatever the receive thread does during a frame, all snapshot data the frame
\* uses comes from one snapshot.
C2_NoTornSnapshot == Cardinality(frameSrc) <= 1

\* C3: at most one client receive thread is alive at any time.
C3_OneReceiveThread == Cardinality(Alive) <= 1

\* C10: a client thread whose shutdown() sent !shutdown to a running server leaves
\* its receive loop: it is not left waiting in recv once the server has ended and
\* neither a datagram nor a reset condition remains for it to receive.
C10_ThreadTerminates ==
    \A t \in stopped :
        (srvPc = "done" /\ inbox = <<>> /\ ~connReset) => thr[t] # "recv"

-----------------------------------------------------------------------------
(* SpecClient: the plugin's receive threads and flight loop, with any datagram *)
(* arriving at the plugin's socket                                            *)

\* a snapshot as getWeatherData builds it for a rounded position
Snapshot(lat) ==
    DictPayload({"gfs", "wafs", "metar", "info"},
                [lat |-> lat, lon |-> -570, wafs_cycle |-> "na", gfs_cycle |-> "X"],
                "X", "", <<"E", "G", "L", "L">>)

\* the datagrams that arrive: a snapshot, a station report and the termination
\* marker
Arriving == {Snapshot(1230), getMetar(<<"E", "G", "L", "L">>), Bye}

\* sock.recv, line 144: a datagram reaches the socket's buffer
Arrive ==
    /\ \E p \in Arriving : inbox' = Deliver(inbox, <<p>>)
    /\ inbox' # inbox
    /\ UNCHANGED <<toServer, connReset, srvVars, diskConf>>
    /\ plugUnch

\* a frame of no elapsed time
ClientFrame == FloopBegin(0)

NextClient ==
    \/ AirportLoaded
    \/ XPluginStop
    \/ Arrive
    \/ DatagramLost
    \/ ClientPing
    \/ ClientRecv
    \/ ClientFlag
    \/ ClientFrame
    \/ FloopRead
    \/ FloopCheck
    \/ FloopNew
    \/ FloopClear
    \/ FloopCloudsGfs
    \/ FloopCloudsMetar
    \/ FloopWinds

SpecClient == Init /\ [][NextClient]_vars

\* a step in which thread t takes the datagram p from the socket
Receives(t, p) ==
    /\ thr[t] = "recv"
    /\ inbox # <<>>
    /\ Head(inbox) = p
    /\ inbox' = Tail(inbox)
    /\ \A u \in Threads \ {t} : thr'[u] = thr[u]

\* a step in which thread t executes line 153
SetsFlag(t) == thr[t] = "flag" /\ thr'[t] = "recv"

\* the decoded mappings waiting in the socket's buffer
Mappings == {p \in {inbox[i] : i \in 1..Len(inbox)} : p.type = "dict"}

\* C1: the client thread stores a received mapping that has the key info in
\* weatherData, leaving queryResponses as it is, and then sets newData; it appends
\* any other mapping to the end of queryResponses and leaves weatherData and newData
\* as they are.
C1_DispatchRule ==
    [][\A t \in Threads :
          /\ \A p \in Mappings :
                Receives(t, p) =>
                   IF "info" \in p.keys
                   THEN /\ weatherData' = p
                        /\ queryResponses' = queryResponses
                        /\ \E u \in Threads : thr[u] = "recv" /\ thr'[u] = "flag"
                   ELSE /\ queryResponses' = Append(queryResponses, p)
                        /\ UNCHANGED <<weatherData, newData>>
          /\ SetsFlag(t) =>
                /\ newData' = TRUE
                /\ UNCHANGED <<weatherData, queryResponses>>]_vars

\* a snapshot has been published and flagged, and a station report is queued
C1_Witness ==
    /\ weatherData.type = "dict"
    /\ "info" \in weatherData.keys
    /\ newData
    /\ queryResponses # <<>>
    /\ "info" \notin queryResponses[1].keys
    /\ \E t \in Threads : thr[t] = "recv"

-----------------------------------------------------------------------------
(* SpecRate: the flight loop's position queries over time *)

\* elapsedMe of the frames, in seconds
RateElapsed == {10, 30, 61}

\* values of conf.parserate
ParseRates == {30, 70}

InitRate ==
    /\ diskConf = "NOAA"
    /\ ServerInit
    /\ PluginInit
    /\ conf = Conf(1, 10)
    /\ enabled = TRUE
    /\ parserate \in ParseRates
    /\ latdr = 1234
    /\ londr = -567

RateFrame == \E e \in RateElapsed : fltime + e <= MaxTime /\ FloopBegin(e)
RateSave == \E en \in BOOLEAN : SaveButton(en, metar_source)
RateFly == Move(Lats)

NextRate ==
    \/ RateFrame
    \/ FloopRead
    \/ FloopCheck
    \/ AirportLoaded
    \/ RateSave
    \/ RateFly
    \/ XPluginStop
    \/ ClientPing
    \/ DatagramLost

SpecRate == InitRate /\ [][NextRate]_vars

\* a step that begins a frame of an enabled plugin
FrameBegins == fpc = "idle" /\ fpc' = "read"

\* elapsedMe of the frame that begins
Elapsed == fltime' - fltime

\* a step that sends a position query
QuerySent ==
    /\ Len(toServer') = Len(toServer) + 1
    /\ toServer'[Len(toServer')][1] = "?"

\* C4: a frame sends a position query only if the frame time summed up since the
\* previous position query, this frame included, exceeds parserate, and so does
\* flcounter at that frame.
C4_RateLimit ==
    [][QuerySent =>
          /\ FrameBegins
          /\ accum + Elapsed > parserate
          /\ flcounter + Elapsed > parserate]_vars

\* with parserate 70 a position query went out after more than 70 seconds
C4_Witness ==
    /\ parserate = 70
    /\ fpc = "read"
    /\ lastParse = fltime
    /\ lastParse > 71
    /\ accum = 0
    /\ toServer # <<>>
    /\ toServer[Len(toServer)][1] = "?"

\* C5 as stated: while the plugin is enabled and the client thread started, a frame at
\* which more than 60 seconds have accumulated since the last position query sends
\* a position query, for every parserate.
C5_Refresh60 ==
    [][(FrameBegins /\ weatherClientThread # 0 /\ accum + Elapsed > RefreshSecs)
          => QuerySent]_vars

\* C5 amended: while the plugin is enabled and the client thread started, a frame at
\* which more than 60 seconds and more than parserate seconds have accumulated since
\* the last position query sends a position query, even if the rounded position is
\* unchanged.
C5_Refresh60Amended ==
    [][(/\ FrameBegins
        /\ weatherClientThread # 0
        /\ accum + Elapsed > RefreshSecs
        /\ accum + Elapsed > parserate)
          => QuerySent]_vars

\* a frame at an unchanged rounded position has just sent the query that was due
\* after more than 60 seconds
C5_Witness ==
    /\ fpc = "read"
    /\ enabled
    /\ weatherClientThread # 0
    /\ lastParse = fltime
    /\ fltime >= 123
    /\ parserate = 30
    /\ accum = 0
    /\ <<latdr, londr>> = <<1234, -567>>
    /\ toServer = <<PositionQuery(1230, -570)>>

-----------------------------------------------------------------------------
(* SpecFault: the plugin's receive threads and flight loop, with snapshots,   *)
(* station reports and undecodable datagrams arriving                         *)

\* the datagrams that arrive: a snapshot, a station report, an undecodable one
FaultArriving == {Snapshot(1230), getMetar(<<"E", "G", "L", "L">>), Garbage}

\* sock.recv, line 144: a datagram reaches the socket's buffer
FaultArrive ==
    /\ \E p \in FaultArriving : inbox' = Deliver(inbox, <<p>>)
    /\ inbox' # inbox
    /\ UNCHANGED <<toServer, connReset, srvVars, diskConf>>
    /\ plugUnch

NextFault ==
    \/ AirportLoaded
    \/ Save
    \/ FaultArrive
    \/ DatagramLost
    \/ ClientPing
    \/ ClientRecv
    \/ ClientFlag
    \/ ClientFrame
    \/ FloopRead
    \/ FloopCheck
    \/ FloopNew
    \/ FloopClear
    \/ FloopCloudsGfs
    \/ FloopCloudsMetar
    \/ FloopWinds

SpecFault == Init /\ [][NextFault]_vars

\* C11: when the client thread receives a datagram that cannot be decoded,
\* weatherData, newData and queryResponses are unchanged and the flight loop sees
\* nothing of it: the position, the local snapshot and the error state of the frame
\* are unchanged, and the undecodable datagram is never held by weatherData, by
\* queryResponses or by a frame.
C11_ProtocolError ==
    /\ [](/\ Garbage \notin {weatherData, wdata}
          /\ \A i \in 1..Len(queryResponses) : queryResponses[i] # Garbage)
    /\ [][\A t \in Threads :
             Receives(t, Garbage) =>
                UNCHANGED <<weatherData, newData, queryResponses, fpc, wdata,
                            frameError, frameSrc, outVars>>]_vars

\* a thread has ended on an undecodable datagram (nothing else ends a thread here)
\* while the published snapshot and its flag are intact
C11_Witness ==
    /\ \E t \in Threads : thr[t] = "dead"
    /\ weatherData = Snapshot(1230)
    /\ newData
    /\ ~frameError

\* C12: a malformed payload is not fatal to the channel: the receive thread does
\* not die of it, and if it did, a later startWeatherClient would start a new one,
\* so that after every airport load (which calls startWeatherClient) a receive
\* thread is running to publish the snapshots that arrive.
C12_NotFatal == [][AirportLoaded => Alive' # {}]_vars

-----------------------------------------------------------------------------
(* SpecPartial: the plugin's receive threads and flight loop, with snapshots  *)
(* that lack top-level keys arriving                                          *)

\* a snapshot with info and the given ones of the keys gfs, wafs, metar
Partial(present) ==
    DictPayload({"info"} \cup present,
                [lat |-> 1230, lon |-> -570, wafs_cycle |-> "na", gfs_cycle |-> "X"],
                IF "gfs" \in present THEN "X" ELSE "",
                "",
                IF "metar" \in present THEN <<"E", "G", "L", "L">> ELSE <<>>)

\* the datagrams that arrive: the complete snapshot, snapshots without one source,
\* a snapshot of info alone, and an object that is no mapping
PartialArriving ==
    {Partial(present) : present \in {{"gfs", "wafs", "metar"}, {"wafs", "metar"},
                                     {"gfs", "metar"}, {"gfs", "wafs"}, {}}}
    \cup {NotMapping}

\* sock.recv, line 144: a datagram reaches the socket's buffer
PartialArrive ==
    /\ \E p \in PartialArriving : inbox' = Deliver(inbox, <<p>>)
    /\ inbox' # inbox
    /\ UNCHANGED <<toServer, connReset, srvVars, diskConf>>
    /\ plugUnch

NextPartial ==
    \/ AirportLoaded
    \/ PartialArrive
    \/ ClientPing
    \/ ClientRecv
    \/ ClientFlag
    \/ ClientFrame
    \/ FloopRead
    \/ FloopCheck
    \/ FloopNew
    \/ FloopClear
    \/ FloopCloudsGfs
    \/ FloopCloudsMetar
    \/ FloopWinds

SpecPartial == Init /\ [][NextPartial]_vars

\* C13: for a current snapshot that contains info but lacks any of the keys gfs,
\* wafs, metar, every flight-loop frame completes without raising an error: a frame
\* that has read a snapshot with info ends without an exception.
C13_AbsentTolerated ==
    [][(fpc # "idle" /\ fpc' = "idle" /\ HasKey(wdata, "info")) => ~frameError']_vars

-----------------------------------------------------------------------------
(* SpecFault, continued: the state before the first snapshot and after it *)

\* C14: as long as no snapshot has been received (weatherData is False) no frame
\* writes a simulator weather output and the published ready value is not 1; ready
\* becomes 1 only in a frame's updateData, for a received snapshot.
C14_NotReady ==
    /\ [](weatherData = PyFalse => (frameOut = {} /\ ready = 0))
    /\ [][ready' # ready =>
             /\ ready' = 1
             /\ fpc = "clouds2"
             /\ HasKey(wdata, "info")]_vars

\* a frame of a plugin whose settings were saved (new-data flag set) stands at the
\* test of line 1511 with no snapshot received
C14_Witness == weatherData = PyFalse /\ fpc = "check" /\ newData

-----------------------------------------------------------------------------
(* SpecWinds: setWinds called frame after frame while the aircraft changes    *)
(* altitude and snapshots are published                                       *)

\* the extras of a forecast layer
GfsExtra(temp) == Put(Put(Put(Empty, "gust", 0), "temp", temp), "dew", temp - 5)

\* forecast wind layers sorted ascending by altitude: one layer, two layers, three
\* layers of which two are low
WindLists ==
    {<<Layer(2, 90, 10, GfsExtra(285))>>,
     <<Layer(10, 90, 10, GfsExtra(285)), Layer(30, 100, 20, GfsExtra(281))>>,
     <<Layer(2, 90, 10, GfsExtra(285)), Layer(4, 90, 10, GfsExtra(285)),
       Layer(30, 100, 20, GfsExtra(281))>>}

\* station reports: without wind, near a low and a high airport, far away
Metars ==
    {NoMetar,
     Metar({"wind", "distance"}, 0, <<95, 15, 2>>, 1, <<0, 0>>, <<>>),
     Metar({"wind", "distance", "temperature"}, 5, <<95, 15, 2>>, 1, <<15, 10>>, <<>>),
     Metar({"wind", "distance"}, 0, <<95, 15, 2>>, 100, <<0, 0>>, <<>>)}

\* the configurations: the height of the surface layer above the station, and the
\* station-distance limit
Confs == {Conf(1, 10), Conf(3, 10)}

\* the aircraft altitudes
Alts == {0, 3, 20, 40}

InitWinds ==
    /\ diskConf = "NOAA"
    /\ ServerInit
    /\ PluginInit
    /\ conf \in Confs
    /\ enabled = TRUE
    /\ parserate = 1
    /\ latdr = 1234
    /\ londr = -567

WindsPublish == \E wl \in WindLists, m \in Metars : Published(wl, <<>>, m)
WindsAltitude == \E a \in Alts : AltitudeRead(a)

NextWinds ==
    \/ WindsPublish
    \/ WindsAltitude
    \/ SetWinds
    \/ BulkClear

SpecWinds == InitWinds /\ [][NextWinds]_vars

\* C16: the current snapshot is never mutated in place: after any number of
\* setWinds calls the wind layers of the snapshot, with every layer's extras, equal
\* what the receive thread published.
C16_SnapshotImmutable == snapWinds = pubWinds

\* C17: whenever the (bottom index, top index) pair computed by setWinds differs
\* from the pair of the previous setWinds call, transitionClearReferences is invoked
\* in that call with exactly the new bottom and top indices excluded.
C17_BracketClear ==
    (lastCall.called /\ lastCall.prevCalled
       /\ <<lastCall.blayer, lastCall.tlayer>> # lastCall.prev)
    => (lastCall.clear /\ lastCall.exclude = {lastCall.blayer, lastCall.tlayer})

\* C18: the synthetic surface layer built from the station report is prepended to
\* the wind layers in setWinds only when the station's distance is within the
\* configured station-distance limit.
C18_SurfaceWithinLimit ==
    (lastCall.called /\ lastCall.surface)
    => ("distance" \in lastCall.station.keys
          /\ lastCall.station.distance < conf.metar_distance_limit)

\* C19: given forecast wind layers sorted ascending by altitude, the layer list that
\* setWinds searches for the bracket (after the synthetic surface layer is prepended
\* and the lowest forecast layer possibly dropped) is sorted ascending by altitude.
C19_SortedLayers ==
    lastCall.called =>
       \A i \in 1..(Len(lastCall.winds) - 1) :
          lastCall.winds[i].alt <= lastCall.winds[i + 1].alt

-----------------------------------------------------------------------------
(* SpecClouds: setClouds called for the forecast and observed clouds of a     *)
(* snapshot                                                                   *)

\* forecast cloud layers [base, top, cover in percent]: none, two, two thin ones
\* close to each other, four
GfsCloudLists ==
    {<<>>,
     <<(<<1000, 2000, 50>>), (<<5000, 6000, 100>>)>>,
     <<(<<5000, 5200, 50>>), (<<5400, 6000, 100>>)>>,
     <<(<<500, 900, 25>>), (<<2000, 3000, 50>>), (<<5000, 6000, 75>>),
       (<<9000, 9500, 100>>)>>}

\* observed cloud layers [base, cover, type]: none, one, two, two of which the lower
\* has a cover code that is none of the five, four
ObservedLists ==
    {<<>>,
     <<(<<300, "FEW", "">>)>>,
     <<(<<300, "FEW", "">>), (<<1200, "BKN", "">>)>>,
     <<(<<300, "///", "">>), (<<1200, "BKN", "">>)>>,
     <<(<<300, "FEW", "">>), (<<900, "SCT", "">>), (<<1500, "BKN", "">>),
       (<<3000, "OVC", "">>)>>}

\* station reports with clouds near the aircraft, and one far away
CloudMetars ==
    {Metar({"distance", "clouds"}, 0, <<0, 0, 0>>, 1, <<0, 0>>, oc) : oc \in ObservedLists}
    \cup {Metar({"distance", "clouds"}, 0, <<0, 0, 0>>, 100, <<0, 0>>,
                <<(<<300, "FEW", "">>), (<<1200, "BKN", "">>)>>),
          NoMetar}

InitClouds ==
    /\ diskConf = "NOAA"
    /\ ServerInit
    /\ PluginInit
    /\ conf = Conf(1, 10)
    /\ enabled = TRUE
    /\ parserate = 1
    /\ latdr = 1234
    /\ londr = -567

\* before the plugin writes them the cloud slots hold what the simulator's own
\* weather left in them
CloudsLeft ==
    /\ published = 0
    /\ \E i \in 1..3, cv \in {0, 4} :
          /\ clouds[i].coverage # cv
          /\ clouds' = [clouds EXCEPT ![i].coverage = cv]
    /\ UNCHANGED <<snapClouds, cloud_data, cloudsCalled, assembled, windVars, turbVars, chanVars>>

CloudsPublish == \E gc \in GfsCloudLists, m \in CloudMetars : Published(<<>>, gc, m)

NextClouds ==
    \/ CloudsLeft
    \/ CloudsPublish
    \/ WindsAltitude
    \/ SetClouds

SpecClouds == InitClouds /\ [][NextClouds]_vars

\* C20: for every combination of observed and forecast cloud layers the layer list
\* assembled by setClouds and published to cloud_base, cloud_top, cloud_cover has at
\* most 3 entries, and after setClouds every simulator cloud slot with index >= the
\* number of assembled layers has coverage 0.
C20_ThreeSlots ==
    /\ Len(cloud_data) <= 3
    /\ cloudsCalled =>
          \A i \in 1..3 : i > Len(cloud_data) => clouds[i].coverage = 0

\* C21: in the layer list assembled by setClouds, ordered by base, each layer's top
\* is at most the base of the layer directly above it, in the observed-layer branch
\* (with the forecast layers prepended above) and in the forecast-only branch.
C21_NoOverlap ==
    \A i \in 1..(Len(assembled) - 1) : assembled[i][2] <= assembled[i + 1][1]

\* C22: every cover value in the layer list assembled by setClouds, and every
\* coverage value in a simulator cloud slot, is a number in [0,4], for every observed
\* cover code (the five of xpClouds and any other) and every forecast cover.
C22_CoverRange ==
    /\ \A i \in 1..Len(assembled) : assembled[i][3] \in 0..4
    /\ \A i \in 1..3 : clouds[i].coverage \in 0..4

\* the absolute difference
Dist(a, b) == IF a > b THEN a - b ELSE b - a

\* a setClouds call has just assembled its layers and written the slots
CloudsSet == cloudsCalled' /\ <<clouds, assembled, cloudsCalled>>' # <<clouds, assembled, cloudsCalled>>

\* C23: with clouds not overridden, for slot i holding an assembled layer, setClouds
\* writes the slot's base (resp. top) if and only if |current output - new value|
\* exceeds minRedraw[i] + alt/10; a smaller change leaves the output as it was, and
\* after setClouds the base and top of the slot differ from the assembled values by
\* at most that threshold.
C23_RedrawSuppression ==
    [][CloudsSet =>
          \A i \in 1..3 :
             i <= Len(assembled') =>
                LET th == minRedraw[i] + alt \div 10
                IN  /\ clouds'[i].bottom =
                          (IF Dist(clouds[i].bottom, assembled'[i][1]) > th
                           THEN assembled'[i][1] ELSE clouds[i].bottom)
                    /\ clouds'[i].top =
                          (IF Dist(clouds[i].top, assembled'[i][2]) > th
                           THEN assembled'[i][2] ELSE clouds[i].top)
                    /\ Dist(clouds'[i].bottom, assembled'[i][1]) <= th
                    /\ Dist(clouds'[i].top, assembled'[i][2]) <= th]_vars

\* the station report of the snapshot gives setClouds no observed layer: it is out
\* of range, has no clouds entry, or its cloud list is empty
NoObserved ==
    \/ ~("distance" \in snapMetar.keys /\ snapMetar.distance < conf.metar_distance_limit)
    \/ "clouds" \notin snapMetar.keys
    \/ snapMetar.clouds = <<>>

\* the forecast bands with cover, base and top above 0, as base and coverage 0..4
RECURSIVE Bands(_)
Bands(gc) ==
    IF gc = <<>> THEN <<>>
    ELSE IF gc[1][3] > 0 /\ gc[1][1] > 0 /\ gc[1][2] > 0
         THEN <<(<<gc[1][1], cc2xp(gc[1][3])>>)>> \o Bands(Tail(gc))
         ELSE Bands(Tail(gc))

\* base and coverage of the assembled layers
BaseCover(layers) ==
    IF layers = <<>> THEN <<>>
    ELSE [i \in 1..Len(layers) |-> <<layers[i][1], layers[i][3]>>]

\* C32: whenever setClouds obtains no usable observed cloud layer (station out of
\* range, no clouds entry, or an in-range station report with an empty cloud list)
\* the assembled layers are exactly the forecast bands with cover > 0, base > 0 and
\* top > 0, their cover converted to the simulator's scale, the bands below the
\* forecast-cloud limit included.
C32_ForecastOnly ==
    (cloudsCalled /\ NoObserved) => BaseCover(assembled) = Bands(snapClouds)

-----------------------------------------------------------------------------
(* SpecTurb: setTurbulence called frame after frame while the aircraft changes *)
(* altitude and snapshots are published                                        *)

\* turbulence bands [altitude, severity], ascending: none, one, two, three
BandLists ==
    {<<>>,
     <<(<<20, 3>>)>>,
     <<(<<3, 2>>), (<<20, 6>>)>>,
     <<(<<3, 2>>), (<<20, 6>>), (<<40, 4>>)>>}

InitTurb ==
    /\ diskConf = "NOAA"
    /\ ServerInit
    /\ PluginInit
    /\ conf = Conf(1, 10)
    /\ enabled = TRUE
    /\ parserate = 1
    /\ latdr = 1234
    /\ londr = -567

TurbPublish == \E tb \in BandLists : PublishedWafs(tb)

\* the altitudes of the turbulence specification
TurbAlts == {0, 3, 10, 20, 50}

TurbAltitude == \E a \in TurbAlts : AltitudeRead(a)

NextTurb ==
    \/ TurbPublish
    \/ TurbAltitude
    \/ SetTurbulence

SpecTurb == InitTurb /\ [][NextTurb]_vars

\* C24: when the turbulence band list is empty, setTurbulence computes severity 0
\* before the random pattern, and it writes the same value to all three wind-layer
\* turbulence slots.
C24_NoBands ==
    /\ (lastTurb.called /\ lastTurb.bands = <<>>) => lastTurb.turb = 0
    /\ turbSlots[1] = turbSlots[2] /\ turbSlots[2] = turbSlots[3]

\* setTurbulence has run for an empty band list and the random pattern has moved the
\* slots off the severity
C24_Witness ==
    /\ lastTurb.called
    /\ lastTurb.bands = <<>>
    /\ turbSlots = [i \in 1..3 |-> 1]

\* C25: when the current altitude has no bracketing pair of bands (the band list has
\* exactly one band, or the altitude is below the lowest band or above the highest),
\* the severity before the random pattern is the severity of the single nearest band
\* times the probability factor; between two bands it is the linear interpolation of
\* their severities times that factor.
C25_NoBracket ==
    (lastTurb.called /\ lastTurb.bands # <<>>) =>
       LET b == lastTurb.bands
           a == lastTurb.alt
           n == Len(b)
       IN  IF n = 1 THEN lastTurb.turb = b[1][2] * turbulence_probability
           ELSE IF a < b[1][1] THEN lastTurb.turb = b[1][2] * turbulence_probability
           ELSE IF a >= b[n][1] THEN lastTurb.turb = b[n][2] * turbulence_probability
           ELSE \E i \in 1..(n - 1) :
                   /\ b[i][1] <= a
                   /\ a < b[i + 1][1]
                   /\ lastTurb.turb =
                         (b[i][2] + ((a - b[i][1]) * (b[i + 1][2] - b[i][2]))
                                       \div (b[i + 1][1] - b[i][1]))
                         * turbulence_probability

-----------------------------------------------------------------------------
(* SpecFrame: the plugin receives snapshots, among them repeated and wind-less *)
(* ones, and runs the new-data block and setWinds frame after frame            *)

\* the received snapshots, each its wind layers and its station report: two forecast
\* layers without a station, and no wind layer (an empty or absent list) without
\* and with a station that reports wind
FrameSnapshots ==
    {<<(<<Layer(10, 90, 10, GfsExtra(285)), Layer(30, 100, 20, GfsExtra(281))>>), NoMetar>>,
     <<(<<>>), NoMetar>>,
     <<(<<>>), Metar({"wind", "distance"}, 0, <<95, 15, 2>>, 1, <<0, 0>>, <<>>)>>}

\* the aircraft altitudes
FrameAlts == {0, 20}

InitFrame ==
    /\ diskConf = "NOAA"
    /\ ServerInit
    /\ PluginInit
    /\ conf = Conf(1, 10)
    /\ enabled = TRUE
    /\ parserate = 1
    /\ latdr = 1234
    /\ londr = -567

FrameReceive == \E s \in FrameSnapshots : Received(s[1], <<>>, s[2])
FrameAltitude == \E a \in FrameAlts : AltitudeRead(a)

NextFrame ==
    \/ FrameReceive
    \/ AirportLoaded
    \/ FrameAltitude
    \/ NewData
    \/ SetWinds

SpecFrame == InitFrame /\ [][NextFrame]_vars

-----------------------------------------------------------------------------
(* SpecRepeat: the server answers position queries between refreshes while the *)
(* plugin, the aircraft on the ground, receives snapshots, repeated ones among  *)
(* them, and runs its frames                                                   *)

\* the received snapshots, each its wind layers and its station report
RepeatSnapshots ==
    {<<(<<Layer(10, 90, 10, GfsExtra(285)), Layer(30, 100, 20, GfsExtra(281))>>), NoMetar>>,
     <<(<<>>), NoMetar>>}

\* serve_forever handles a position query that the plugin's query step or any other
\* local process sent; the closest station is the one the station table gives
ServePosition ==
    /\ srvPc = "select"
    /\ \E apt \in ClosestStations :
          /\ handle(SpecQuery, apt)
          /\ lastReq' = SpecQuery
          /\ lastSent' = HandleSends(Strip(SpecQuery), apt)
    /\ srvPc' = "test"
    /\ UNCHANGED <<toServer, inbox, connReset>>
    /\ plugUnch

RepeatReceive == \E s \in RepeatSnapshots : Received(s[1], <<>>, s[2])

NextRepeat ==
    \/ SrvLoopTest
    \/ ServePosition
    \/ SrvGfsRefresh
    \/ RepeatReceive
    \/ AirportLoaded
    \/ NewData
    \/ SetWinds

SpecRepeat == InitFrame /\ [][NextRepeat]_vars

\* a step of the server that handles a position query
PositionHandled ==
    srvPc = "select" /\ srvPc' = "test" /\ HandleBranch(Strip(lastReq')) = "weather"

\* the cycle id a response reports for the cycle c
CycleId(c) == IF c # NoGrib THEN c ELSE "na"

\* the request handled in this step repeats the previous one, no refresh worker has
\* published a cycle since the previous response, and the station table gives the
\* station it gave then
RepeatedQuery ==
    /\ lastReq' = lastReq
    /\ lastSent # <<>>
    /\ lastSent[1].info.gfs_cycle = CycleId(gfs_lastgrib)
    /\ lastSent[1].info.wafs_cycle = CycleId(wafs_lastgrib)
    /\ lastSent'[1].metar = lastSent[1].metar

\* a position query leaves the server's state alone, and a repeated one gets the
\* response of the previous one
QueryIdempotent ==
    /\ [][PositionHandled =>
             UNCHANGED <<gfs_lastgrib, wafs_lastgrib, srvConf, metarDb, gfs_die,
                         confSaved, shutdown_request, shutNow, diskConf>>]_vars
    /\ [][(PositionHandled /\ RepeatedQuery) => lastSent' = lastSent]_vars

\* the receipt of a snapshot by itself changes neither the transitions nor windAlts
ReceiptKeeps == [][published' # published => UNCHANGED <<refs, windAlts>>]_vars

\* C26: a position query does not alter server state, and two identical queries
\* with no refresh in between get equal snapshots; on the client, receiving a
\* snapshot equal to the current one, and the frame that processes it as new data,
\* clear no transition state and do not change windAlts.
C26_Idempotent ==
    /\ QueryIdempotent
    /\ ReceiptKeeps
    /\ [][(newData /\ ~newData' /\ repeat) => UNCHANGED <<refs, windAlts>>]_vars

\* C26 amended: as C26, except that the frame that processes the received snapshot
\* clears every transition when an airport was loaded (or the settings were saved)
\* since the last frame with new data; windAlts stays as it is in either case.
C26_IdempotentAmended ==
    /\ QueryIdempotent
    /\ ReceiptKeeps
    /\ [][(newData /\ ~newData' /\ repeat /\ ~newAptLoaded) =>
             UNCHANGED <<refs, windAlts>>]_vars
    /\ [][(newData /\ ~newData' /\ repeat /\ newAptLoaded) =>
             (refs' = Empty /\ windAlts' = windAlts)]_vars

\* the server has answered a position query from a published forecast cycle, and
\* the plugin has processed a snapshot equal to the one before it with its wind
\* transitions kept
C26_Witness ==
    /\ lastReq = SpecQuery
    /\ lastSent # <<>>
    /\ gfs_lastgrib # NoGrib
    /\ lastSent[1].info.gfs_cycle = gfs_lastgrib
    /\ repeat
    /\ ~newData
    /\ published = 2
    /\ lastCall.called
    /\ refs # Empty

\* the current snapshot has no forecast wind layer before and after the step
NoWindLayers == snapWinds = <<>> /\ snapWinds' = <<>>

\* C29: while the current snapshot has an empty (or absent) forecast wind layer
\* list, no frame writes a wind output or a sea-level temperature or dewpoint (no
\* setWinds call is made and the resolved layer stays as it was), and the stored
\* bracket index windAlts and the wind transition state stay unchanged.
C29_EmptyWinds ==
    [][NoWindLayers => UNCHANGED <<rwind, lastCall, windAlts, refs>>]_vars

\* C29 amended: as C29, except that the frame that takes the new-data path after an
\* airport load (or a save of the settings) clears every transition reference.
C29_EmptyWindsAmended ==
    /\ [][NoWindLayers => UNCHANGED <<rwind, lastCall, windAlts>>]_vars
    /\ [][(NoWindLayers /\ refs' # refs) =>
             (newData /\ ~newData' /\ newAptLoaded /\ refs' = Empty)]_vars
    /\ [][(NoWindLayers /\ newData /\ ~newData' /\ ~newAptLoaded) => refs' = refs]_vars

\* a frame has processed a wind-less snapshot that replaced one with wind layers:
\* the bracket index and the transitions of the earlier setWinds calls are kept
C29_Witness ==
    /\ published = 2
    /\ snapWinds = <<>>
    /\ ~newData
    /\ lastCall.called
    /\ windAlts = 1
    /\ refs # Empty
    /\ rwind.speed > 0

-----------------------------------------------------------------------------
(* SpecInterp: interpolateWindLayer applied, as line 269 of setWinds applies   *)
(* it, to a bottom and a top layer drawn from a small set                      *)

\* the layers: two altitudes, two headings, two speeds
InterpLayers ==
    {Layer(a, h, s, GfsExtra(285)) : a \in {10, 20}, h \in {90, 100}, s \in {10, 20}}

\* the current altitudes
InterpAlts == {10, 15, 20}

\* snapWinds holds the bottom layer and the top layer, in the order of the list
InitInterp ==
    /\ diskConf = "NOAA"
    /\ ServerInit
    /\ PluginInit
    /\ conf = Conf(1, 10)
    /\ enabled = TRUE
    /\ parserate = 1
    /\ latdr = 1234
    /\ londr = -567

\* the layers and the altitude of the next call
InterpInput ==
    /\ ~lastCall.called
    /\ snapWinds = <<>>
    /\ \E b \in InterpLayers, t \in InterpLayers, a \in InterpAlts :
          /\ b.alt <= t.alt
          /\ snapWinds' = <<b, t>>
          /\ alt' = a
    /\ UNCHANGED <<windAlts, snapMetar, conf, refs, rwind, pubWinds, published,
                   lastCall, repeat, msl, cloudVars, turbVars, chanVars>>

\* setWinds, line 269: rwind = self.interpolateWindLayer(twind, bwind, self.alt,
\* blayer), with the top layer as wlayer1 and the bottom layer as wlayer2
Interpolated ==
    /\ ~lastCall.called
    /\ Len(snapWinds) = 2
    /\ LET res == interpolateWindLayer(snapWinds[2], snapWinds[1], alt)
       IN  /\ rwind' = res.layer
           /\ snapWinds' = [snapWinds EXCEPT ![2].extra = res.extra1]
    /\ lastCall' = [NoCall EXCEPT !.called = TRUE, !.winds = snapWinds,
                                  !.blayer = 0, !.tlayer = 1]
    /\ UNCHANGED <<alt, windAlts, snapMetar, conf, refs, pubWinds, published, repeat, msl,
                   cloudVars, turbVars, chanVars>>

NextInterp ==
    \/ InterpInput
    \/ Interpolated

SpecInterp == InitInterp /\ [][NextInterp]_vars

-----------------------------------------------------------------------------
(* The bracket selection of setWinds, on SpecWinds *)

\* the layer list w is ascending by altitude
Ascending(w) == \A i \in 1..(Len(w) - 1) : w[i].alt <= w[i + 1].alt

\* the index, from 0, of the first layer of w strictly above the altitude a, the
\* last index if none is
TopOf(w, a) ==
    LET up == {i \in 1..Len(w) : w[i].alt > a}
    IN  IF up = {} THEN Len(w) - 1
        ELSE (CHOOSE i \in up : \A j \in up : i <= j) - 1

\* the index, from 0, of the last layer of w at or below the altitude a, -1 if the
\* altitude is below all layers
BottomOf(w, a) ==
    LET down == {i \in 1..Len(w) : w[i].alt <= a}
    IN  IF down = {} THEN -1
        ELSE (CHOOSE i \in down : \A j \in down : j <= i) - 1

\* C30: in a setWinds call on a non-empty ascending layer list, top is the index
\* of the first layer strictly above the current altitude (the last index if none
\* is) and bottom the index of the last layer at or below it (none if the altitude
\* is below all layers); below all layers or at or above the highest one the
\* resolved layer is the transitioned top layer, not interpolated; otherwise,
\* bottom index 0 included, it is the interpolation of the transitioned top and
\* bottom layers at the current altitude.
C30_Bracket ==
    LET w == lastCall.winds
        a == lastCall.alt
    IN  (lastCall.called /\ Len(w) > 0 /\ Ascending(w)) =>
            /\ lastCall.tlayer = TopOf(w, a)
            /\ lastCall.blayer = BottomOf(w, a)
            /\ (a < w[1].alt \/ a >= w[Len(w)].alt) =>
                   /\ ~lastCall.between
                   /\ rwind = lastCall.twind
                   /\ rwind.alt = w[lastCall.tlayer + 1].alt
            /\ ~(a < w[1].alt \/ a >= w[Len(w)].alt) =>
                   /\ lastCall.between
                   /\ lastCall.blayer + 1 = lastCall.tlayer
                   /\ rwind = interpolateWindLayer(lastCall.twind, lastCall.bwind, a).layer
                   /\ rwind.alt = a

\* a call between the first and the second layer of an ascending list: bottom
\* index 0, top index 1, and the resolved layer interpolated at the altitude
C30_Witness ==
    /\ lastCall.called
    /\ Ascending(lastCall.winds)
    /\ lastCall.blayer = 0
    /\ lastCall.tlayer = 1
    /\ lastCall.between
    /\ rwind.alt = lastCall.alt
    /\ rwind.speed > lastCall.bwind.speed
    /\ rwind.speed < lastCall.twind.speed

-----------------------------------------------------------------------------
(* SpecDrain: responses to station queries arrive while the flight loop runs,  *)
(* the plugin enabled or disabled, before any snapshot                         *)

\* the ad-hoc responses that arrive
DrainArriving == {getMetar(<<"E", "G", "L", "L">>), getMetar(<<"K", "J", "F", "K">>)}

\* conf.enabled is read from the settings file
InitDrain ==
    /\ diskConf = "NOAA"
    /\ ServerInit
    /\ PluginInit
    /\ conf = Conf(1, 10)
    /\ enabled \in BOOLEAN
    /\ parserate = 1
    /\ latdr = 1234
    /\ londr = -567

\* sock.recv, line 144: a response reaches the socket's buffer
DrainArrive ==
    /\ \E p \in DrainArriving : inbox' = Deliver(inbox, <<p>>)
    /\ inbox' # inbox
    /\ UNCHANGED <<toServer, connReset, srvVars, diskConf>>
    /\ plugUnch

NextDrain ==
    \/ AirportLoaded
    \/ DrainArrive
    \/ DatagramLost
    \/ ClientPing
    \/ ClientRecv
    \/ ClientFrame
    \/ FloopRead
    \/ FloopCheck

SpecDrain == InitDrain /\ [][NextDrain]_vars

\* The simulator calls the flight loop every frame while it is registered, and a
\* frame that has begun runs to its end.
SpecDrainFair ==
    /\ SpecDrain
    /\ WF_vars(ClientFrame)
    /\ WF_vars(FloopRead)
    /\ WF_vars(FloopCheck)

\* the receive thread appends a response
Appended == Len(queryResponses') > Len(queryResponses)

\* the queue without its last element
Front(q) == SubSeq(q, 1, Len(q) - 1)

\* C27: a frame removes at most one element from queryResponses, the most
\* recently appended one, whether the plugin is enabled or not; no other step
\* removes or reorders an element (the receive thread appends at the end), so no
\* response is removed twice or lost; and if responses stop arriving while frames
\* keep running the queue becomes empty and stays so.
C27_Drain ==
    /\ [][ClientFrame =>
             /\ queryResponses # <<>> =>
                   /\ queryResponses' = Front(queryResponses)
                   /\ msg' = queryResponses[Len(queryResponses)]
             /\ queryResponses = <<>> => UNCHANGED <<queryResponses, msg>>]_vars
    /\ [][~ClientFrame =>
             /\ msg' = msg
             /\ \/ queryResponses' = queryResponses
                \/ /\ Appended
                   /\ Front(queryResponses') = queryResponses]_vars
    /\ ([]<><<Appended>>_vars \/ <>[](queryResponses = <<>>))

\* a disabled plugin whose frame has popped the later of two queued responses and
\* left the earlier one in the queue
C27_Witness ==
    /\ ~enabled
    /\ fpc = "idle"
    /\ queryResponses = <<getMetar(<<"E", "G", "L", "L">>)>>
    /\ msg = getMetar(<<"K", "J", "F", "K">>)
    /\ inbox = <<>>

-----------------------------------------------------------------------------
(* SpecTemp: setWinds called on layer lists of which some layers carry no      *)
(* temperature or no dewpoint                                                  *)

\* the extras of a forecast layer without temperature and dewpoint
BareExtra == Put(Empty, "gust", 0)

\* the extras of a forecast layer with a temperature and no dewpoint
TempOnly(temp) == Put(BareExtra, "temp", temp)

\* forecast wind layers sorted ascending by altitude, temperature and dewpoint
\* present on all, on the lower, on the upper, on no layer, on the two upper of
\* three, on the uppermost of three, and the dewpoint on the upper layer only
TempLists ==
    {<<Layer(10, 90, 10, GfsExtra(285)), Layer(30, 100, 20, GfsExtra(281))>>,
     <<Layer(10, 90, 10, GfsExtra(285)), Layer(30, 100, 20, BareExtra)>>,
     <<Layer(10, 90, 10, BareExtra), Layer(30, 100, 20, GfsExtra(281))>>,
     <<Layer(10, 90, 10, BareExtra), Layer(30, 100, 20, BareExtra)>>,
     <<Layer(4, 90, 10, BareExtra), Layer(10, 90, 10, GfsExtra(285)),
       Layer(30, 100, 20, GfsExtra(281))>>,
     <<Layer(4, 90, 10, BareExtra), Layer(10, 90, 10, BareExtra),
       Layer(30, 100, 20, GfsExtra(281))>>,
     <<Layer(10, 90, 10, TempOnly(285)), Layer(30, 100, 20, GfsExtra(281))>>}

\* station reports: none, with wind and temperature, with wind only
TempMetars ==
    {NoMetar,
     Metar({"wind", "distance", "temperature"}, 0, <<95, 15, 2>>, 1, <<15, 10>>, <<>>),
     Metar({"wind", "distance"}, 0, <<95, 15, 2>>, 1, <<0, 0>>, <<>>)}

\* the aircraft altitudes: below, between and above the layers
TempAlts == {0, 5, 20, 40}

InitTemp ==
    /\ diskConf = "NOAA"
    /\ ServerInit
    /\ PluginInit
    /\ conf = Conf(1, 10)
    /\ enabled = TRUE
    /\ parserate = 1
    /\ latdr = 1234
    /\ londr = -567

TempPublish == \E wl \in TempLists, m \in TempMetars : Published(wl, <<>>, m)
TempAltitude == \E a \in TempAlts : AltitudeRead(a)

NextTemp ==
    \/ TempPublish
    \/ TempAltitude
    \/ SetWinds

SpecTemp == InitTemp /\ [][NextTemp]_vars

\* the value that lines 289-297 give the output of key k after the last call, o
\* being the output before it
Fallback(k, o) ==
    LET w == lastCall.winds
        t == lastCall.tlayer
    IN  IF k \in DOMAIN rwind.extra
        THEN oat2msltemp(rwind.extra[k] - 273, lastCall.alt)
        ELSE IF t + 2 <= Len(w) /\ k \in DOMAIN w[t + 2].extra
             THEN oat2msltemp(w[t + 2].extra[k] - 273, w[t + 2].alt)
             ELSE o

-----------------------------------------------------------------------------
(* The airport load and the bulk clear of the transition state, on SpecClient *)

\* a step that computes the wind outputs of the current frame (lines 1580-1582)
WindsComputed == "wind" \in frameOut' /\ "wind" \notin frameOut

\* a step that runs the bulk clear of lines 1519-1522: c.transitionClearReferences(),
\* c.randRefs = {}, newAptLoaded = False
BulkCleared == fpc = "new" /\ newData /\ newAptLoaded

\* C33: the bulk clear of the transition and jitter state happens only in a frame
\* whose newAptLoaded flag is set, resets the flag and precedes the wind and
\* turbulence computations of that frame; and after an airport load, the plugin
\* enabled and a snapshot present, the bulk clear happens before the wind outputs
\* are next computed: no frame computes the wind outputs while the flag is set.
C33_Discontinuity ==
    /\ [][(newAptLoaded /\ ~newAptLoaded') =>
              (BulkCleared /\ frameOut \cap {"wind", "turbulence"} = {})]_vars
    /\ [][WindsComputed => ~newAptLoaded]_vars

-----------------------------------------------------------------------------
(* SpecSend: what the plugin sends to the server: the handshake of the client  *)
(* thread, the position queries of the flight loop, the messages of Apply &    *)
(* Save and of the plugin stop; the datagrams sent are taken off the wire      *)

\* elapsedMe of the frames, in seconds
SendElapsed == {2}

SendFrame == \E e \in SendElapsed : fltime + e <= ConcMaxTime /\ FloopBegin(e)

\* Apply & Save with any state of the enable box and any station-report source
SendSave == \E en \in BOOLEAN, src \in MetarSources : SaveButton(en, src)

NextSend ==
    \/ AirportLoaded
    \/ SendSave
    \/ XPluginStop
    \/ ClientPing
    \/ SendFrame
    \/ FloopRead
    \/ FloopCheck
    \/ Fly
    \/ DatagramLost

SpecSend == Init /\ [][NextSend]_vars

\* C34: every Apply & Save sends !reload to the server after the configuration is
\* saved, and after it !resetMetar exactly when the station-report source changed,
\* also when the client thread had not been started before the Save.
C34_Propagation ==
    [][SendSave =>
          /\ diskConf' = metar_source'
          /\ toServer' = toServer \o <<Reload>> \o
                         (IF metar_source' # metar_source THEN <<ResetMetar>> ELSE <<>>)]_vars

\* a step in which the plugin puts a datagram on the wire
Sends == Len(toServer') > Len(toServer)

\* C35: every plugin stop sends !shutdown to the server, in every state of the
\* client, also when the client thread was never started; and after the shutdown
\* the client sends no message until startWeatherClient is called again.
C35_GracefulExit ==
    /\ [][XPluginStop => toServer' = toServer \o <<Shutdown>>]_vars
    /\ [][(weatherClientThread = 0 /\ weatherClientThread' = 0) => ~Sends]_vars

\* the thread object that was started last has not yet executed line 141
Unpinged == weatherClientThread # 0 /\ thr[weatherClientThread] = "ping"

\* C36: in every interleaving of a newly started client thread with the flight loop
\* and the Save handler, the first datagram sent after startWeatherClient is !ping:
\* nothing is sent before the thread has sent it, and every started thread sends
\* it exactly once.
C36_HandshakeFirst ==
    /\ [][(Unpinged /\ Sends) =>
             (toServer' = toServer \o <<Ping>> /\ thr'[weatherClientThread] = "recv")]_vars
    /\ [][\A t \in Threads :
             (thr[t] = "ping" /\ thr'[t] # "ping") => toServer' = toServer \o <<Ping>>]_vars

-----------------------------------------------------------------------------
(* The new-data flag between the receive thread and the flight loop, on Spec *)

\* the receive thread has stored a snapshot and not yet set the flag (between
\* lines 152 and 153)
Flagging == \E t \in Threads : thr[t] = "flag"

\* C37: in every interleaving of the receive thread with the flight loop the
\* snapshot published last gets the one-shot new-data processing of some frame:
\* newData is never cleared (line 1562) by a frame whose wdata, read at line 1508,
\* is an older snapshot than the one that was published, flag included, by then.
C37_NoLostFlag ==
    [][(fpc = "clear" /\ newData /\ ~newData' /\ ~Flagging) => wdata = weatherData]_vars

-----------------------------------------------------------------------------
(* The override datarefs *)

\* Data.__init__, lines 546-559: the seven writable override datarefs, by the output
\* each one guards
Overrides ==
    {"clouds", "wind", "visibility", "turbulence", "pressure", "precipitation", "friction"}

\* the overrides another plugin holds set at one time
OverrideSets ==
    {{}, {"clouds", "wind"}, {"turbulence", "pressure"},
     {"visibility", "precipitation", "friction"}, Overrides}

\* another plugin writes the override datarefs (registered writable, lines 546-559)
\* between two frames
OverrideWrite ==
    /\ fpc = "idle"
    /\ \E o \in OverrideSets : override' = o
    /\ override' # override
    /\ UNCHANGED <<ready, frameOut, srvVars, diskConf, netVars, weatherVars, pluginVars,
                   histVars, engineVars>>

\* the snapshot of Arriving reaches the socket's buffer
OverrideArrive ==
    /\ inbox' = Deliver(inbox, <<Snapshot(1230)>>)
    /\ inbox' # inbox
    /\ UNCHANGED <<toServer, connReset, srvVars, diskConf>>
    /\ plugUnch

\* the two layers of a forecast, with no station report, are published to setClouds
OverridePublish == \E gc \in {g \in GfsCloudLists : Len(g) = 2} : Published(<<>>, gc, NoMetar)

NextOverride ==
    \/ OverrideWrite
    \/ AirportLoaded
    \/ OverrideArrive
    \/ ClientPing
    \/ ClientRecv
    \/ ClientFlag
    \/ ClientFrame
    \/ FloopRead
    \/ FloopCheck
    \/ FloopNew
    \/ FloopClear
    \/ FloopCloudsGfs
    \/ FloopCloudsMetar
    \/ FloopWinds
    \/ OverridePublish
    \/ SetClouds

SpecOverride == InitClouds /\ [][NextOverride]_vars

\* C38: overrides are respected: in any frame no simulator output whose override is
\* set is written (winds with the sea-level temperature, clouds, turbulence,
\* pressure, visibility, precipitation, runway friction), and a setClouds call with
\* override_clouds set leaves every simulator cloud slot as it was while the
\* published cloud_base/top/cover lists still take the assembled layers.
C38_Respected ==
    /\ [][\A o \in override : o \notin frameOut' \ frameOut]_vars
    /\ [][("wind" \in override) => "msltemp" \notin frameOut' \ frameOut]_vars
    /\ [][(assembled' # assembled \/ cloudsCalled' # cloudsCalled) /\ "clouds" \in override
            => clouds' = clouds /\ cloud_data' = assembled']_vars

\* a frame with the clouds and winds overridden has written the other outputs of a
\* snapshot that has winds, and setClouds has published layers over untouched slots
C38_Witness ==
    /\ override = {"clouds", "wind"}
    /\ fpc = "idle"
    /\ {"pressure", "visibility", "precipitation", "turbulence"} \subseteq frameOut
    /\ HasKey(weatherData, "gfs") /\ weatherData.gfs # ""
    /\ cloudsCalled
    /\ Len(cloud_data) >= 2
    /\ \A i \in 1..3 : clouds[i].coverage = 0

-----------------------------------------------------------------------------
(* SpecInactive: frames while the plugin is disabled or has no client thread  *)

\* a frame of SendElapsed seconds; the frame clock stands still while the plugin
\* is disabled
InactiveFrame ==
    \E e \in SendElapsed : (Disabled \/ fltime + e <= ConcMaxTime) /\ FloopBegin(e)

NextInactive ==
    \/ AirportLoaded
    \/ SendSave
    \/ XPluginStop
    \/ OverrideArrive
    \/ DatagramLost
    \/ ClientPing
    \/ ClientRecv
    \/ ClientFlag
    \/ Fly
    \/ InactiveFrame
    \/ FloopRead
    \/ FloopCheck
    \/ FloopNew
    \/ FloopClear
    \/ FloopCloudsGfs
    \/ FloopCloudsMetar
    \/ FloopWinds

SpecInactive == Init /\ [][NextInactive]_vars

\* C39: while the plugin is disabled no step sends a position query, writes a
\* simulator weather output or advances the query-interval counter (or the frame
\* clock); and no step sends a position query while there is no client thread
\* object (not started yet, or after shutdown).
C39_NoTraffic ==
    /\ [][~enabled => /\ ~QuerySent
                      /\ frameOut' \subseteq frameOut
                      /\ fpc' = "idle"
                      /\ flcounter' = flcounter
                      /\ fltime' = fltime]_vars
    /\ [][weatherClientThread = 0 => ~QuerySent]_vars

\* the plugin is disabled after a frame wrote the weather; a newer snapshot waits,
\* the query interval has passed, the aircraft has moved and the client thread is
\* there, and the frame that ran since has written nothing
C39_Witness ==
    /\ ~enabled
    /\ fpc = "idle"
    /\ ready = 1
    /\ frameOut = {}
    /\ newData
    /\ Truthy(weatherData)
    /\ weatherClientThread # 0
    /\ flcounter > parserate
    /\ <<Round1(latdr), Round1(londr)>> # last_pos

====
